---- MODULE Spec2Model ----
(***************************************************************************)
(* grinta-rs: the interactive session (src/main.rs, src/input.rs,          *)
(* src/state.rs, src/history.rs) as a state machine.                       *)
(*                                                                         *)
(* The session loop owns AppState.  Search tasks run concurrently on the   *)
(* tokio runtime and talk to the loop only through bounded channels and    *)
(* the two global generation counters.                                     *)
(*                                                                         *)
(* Strings are sequences of one-character strings.  Option<T> is a         *)
(* sequence of length 0 (None) or 1 (Some).  Indices into filtered_items   *)
(* are 0-based as in the source; Item(view, i) reads the i-th element.     *)
(***************************************************************************)
EXTENDS Integers, Sequences, FiniteSets, TLC

(***************************************************************************)
(* Bounds of the model (not program constants).                            *)
(***************************************************************************)
\* generations the dispatch specification lets the counters reach
MaxGen == 2
\* generations the burst specification lets the counters reach
MaxBurst == 2
\* generations the full-session specification lets the counters reach
MaxGenSession == 1
\* characters the user may have in the query line
MaxQueryLen == 2
\* executions (Enter on an item) in one run
MaxExec == 1
\* catalog fetch tasks alive at once, and note tasks alive at once
MaxBgTasks == 1
\* searches triggered, items executed and background tasks in flight,
\* together, in one run of the session
MaxSessionOps == 3
\* items executed in one run of the history store
MaxRecords == 2
\* characters of the query in a run of the history store
MaxStoreQueryLen == 1

(***************************************************************************)
(* Program constants.                                                      *)
(***************************************************************************)
\* mpsc::channel(1): capacity of every channel of the session
ChannelCapacity == 1
\* "Only trigger searches for queries with 2+ characters"
MinQueryLen == 2

(***************************************************************************)
(* Option.                                                                 *)
(***************************************************************************)
None == <<>>

Some(x) == <<x>>

IsSome(o) == o # <<>>

Unwrap(o) == o[1]

Max(a, b) == IF a >= b THEN a ELSE b

(***************************************************************************)
(* Characters and strings.                                                 *)
(***************************************************************************)
Chars == {" ", "A", "B", "Z", "a", "b", "z"}

\* byte value of a character: String::cmp compares bytes
CharCode(c) ==
    CASE c = " " -> 32
      [] c = "A" -> 65
      [] c = "B" -> 66
      [] c = "Z" -> 90
      [] c = "a" -> 97
      [] c = "b" -> 98
      [] c = "z" -> 122

IsUpper(c) == c \in {"A", "B", "Z"}

LowerChar(c) ==
    CASE c = "A" -> "a"
      [] c = "B" -> "b"
      [] c = "Z" -> "z"
      [] OTHER -> c

\* str::to_lowercase
to_lowercase(s) == [i \in 1..Len(s) |-> LowerChar(s[i])]

\* str::contains: pat occurs in s as a contiguous substring
contains(s, pat) ==
    \E k \in 0..(Len(s) - Len(pat)) :
        \A i \in 1..Len(pat) : s[k + i] = pat[i]

RECURSIVE TrimStart(_)
TrimStart(s) ==
    IF s # <<>> /\ Head(s) = " " THEN TrimStart(Tail(s)) ELSE s

RECURSIVE TrimEnd(_)
TrimEnd(s) ==
    IF s # <<>> /\ s[Len(s)] = " " THEN TrimEnd(SubSeq(s, 1, Len(s) - 1)) ELSE s

\* str::trim
trim(s) == TrimEnd(TrimStart(s))

\* String::cmp: lexicographic on bytes; "Less", "Equal" or "Greater"
RECURSIVE StrCmp(_, _)
StrCmp(a, b) ==
    IF a = <<>> /\ b = <<>> THEN "Equal"
    ELSE IF a = <<>> THEN "Less"
    ELSE IF b = <<>> THEN "Greater"
    ELSE IF CharCode(Head(a)) < CharCode(Head(b)) THEN "Less"
    ELSE IF CharCode(Head(a)) > CharCode(Head(b)) THEN "Greater"
    ELSE StrCmp(Tail(a), Tail(b))

\* i64::cmp / usize::cmp
IntCmp(a, b) == IF a < b THEN "Less" ELSE IF a > b THEN "Greater" ELSE "Equal"

(***************************************************************************)
(* core.rs: Handler, CommandType, CommandItem.                             *)
(***************************************************************************)
Handlers == {"App", "Note", "Url", "Automation", "Folder", "File"}

CommandTypes == {"App", "Bookmark", "Note", "WebSearch", "WebSuggestion", "Unknown"}

\* Handler::to_icon
to_icon(h) ==
    CASE h = "Url" -> "link"
      [] h = "App" -> "phone"
      [] h = "Note" -> "memo"
      [] h = "File" -> "page"
      [] h = "Folder" -> "folder"
      [] h = "Automation" -> "bolt"

\* CommandItem::new
CommandItem_new(label, handler, value) ==
    [label |-> label, handler |-> handler, value |-> value,
     icon |-> to_icon(handler), ran_at |-> None, base64_icon |-> None,
     metadata |-> {}, kind |-> "Unknown"]

\* a mark_executed that leaves the item as it is
mark_executed_unstamped(item, t) == item

\* CommandItem::mark_executed, with the clock reading passed in
mark_executed(item, t) == [item EXCEPT !.ran_at = Some(t)]

\* the item with its ranking kind set (item.kind = ...)
WithKind(item, k) == [item EXCEPT !.kind = k]

\* web_search.rs create_suggestion_command
create_suggestion_command(suggestion) ==
    [CommandItem_new(suggestion, "Url", <<"z">> \o suggestion)
        EXCEPT !.icon = "glass", !.kind = "WebSuggestion"]

(***************************************************************************)
(* The fuzzy matcher (fuzzy_matcher::skim::SkimMatcherV2::default()) as    *)
(* filter_items uses it: a subsequence matcher with smart case, None when  *)
(* the pattern is no subsequence of the text, otherwise a positive score   *)
(* that grows with the pattern length, with contiguity and with a match    *)
(* at the start of the text.                                               *)
(***************************************************************************)
RECURSIVE IsSubsequence(_, _)
IsSubsequence(text, pat) ==
    IF pat = <<>> THEN TRUE
    ELSE IF text = <<>> THEN FALSE
    ELSE IF Head(text) = Head(pat) THEN IsSubsequence(Tail(text), Tail(pat))
    ELSE IsSubsequence(Tail(text), pat)

IsPrefix(text, pat) ==
    Len(pat) <= Len(text) /\ SubSeq(text, 1, Len(pat)) = pat

\* smart case: the text is folded unless the pattern has an upper-case letter
SmartCase(text, pat) ==
    IF \E i \in 1..Len(pat) : IsUpper(pat[i]) THEN text ELSE to_lowercase(text)

\* matcher.fuzzy_match(text, pattern): Option<i64>
fuzzy_match(text, pat) ==
    LET t == SmartCase(text, pat)
    IN  IF ~IsSubsequence(t, pat) THEN None
        ELSE Some(16 * Len(pat)
                  + (IF contains(t, pat) THEN 8 * (Len(pat) - 1) ELSE 0)
                  + (IF IsPrefix(t, pat) THEN 8 ELSE 0))

\* Option::unwrap_or
unwrap_or(o, d) == IF IsSome(o) THEN Unwrap(o) ELSE d

(***************************************************************************)
(* state.rs: AppState::filter_items.                                       *)
(***************************************************************************)
\* a filter closure that asks the fuzzy matcher only
MatchesFuzzyOnly(item, query) ==
    \/ unwrap_or(fuzzy_match(item.label, query), 0) > 0
    \/ unwrap_or(fuzzy_match(item.value, query), 0) > 0

\* the closure of the three .filter() calls
MatchesQuery(item, query) ==
    \/ contains(to_lowercase(item.label), to_lowercase(query))
    \/ contains(to_lowercase(item.value), to_lowercase(query))
    \/ unwrap_or(fuzzy_match(item.label, query), 0) > 0
    \/ unwrap_or(fuzzy_match(item.value, query), 0) > 0

\* a_fuzzy / b_fuzzy of the sort closure
ItemFuzzy(item, query) ==
    Max(unwrap_or(fuzzy_match(item.label, query), 0),
        unwrap_or(fuzzy_match(item.value, query), 0))

\* a priority that does not tell a web item from a local one
KindPriorityFlat(kind) == 1

\* a_priority / b_priority of the sort closure
KindPriority(kind) ==
    CASE kind = "App" -> 1
      [] kind = "Note" -> 1
      [] kind = "Bookmark" -> 1
      [] kind = "Unknown" -> 1
      [] kind = "WebSearch" -> 2
      [] kind = "WebSuggestion" -> 2

\* the closure given to sort_by: the ordering of a relative to b
SortCompare(a, b, query) ==
    LET byScore == IntCmp(ItemFuzzy(b, query), ItemFuzzy(a, query))
        byKind == IntCmp(KindPriority(a.kind), KindPriority(b.kind))
    IN  IF byScore # "Equal" THEN byScore
        ELSE IF byKind # "Equal" THEN byKind
        ELSE StrCmp(a.label, b.label)

\* Vec::sort_by is a stable sort: x goes before the first element it is Less than
RECURSIVE StableInsert(_, _, _)
StableInsert(sorted, x, query) ==
    IF sorted = <<>> THEN <<x>>
    ELSE IF SortCompare(x, Head(sorted), query) = "Less" THEN <<x>> \o sorted
    ELSE <<Head(sorted)>> \o StableInsert(Tail(sorted), x, query)

RECURSIVE sort_by(_, _)
sort_by(v, query) ==
    IF v = <<>> THEN <<>>
    ELSE StableInsert(sort_by(SubSeq(v, 1, Len(v) - 1), query), v[Len(v)], query)

\* the clone of the history as it is, without the call of reverse
NotReversed(v) == v

\* Vec::reverse
reverse(v) == [i \in 1..Len(v) |-> v[Len(v) + 1 - i]]

FilterBy(v, query) == SelectSeq(v, LAMBDA item : MatchesQuery(item, query))

\* AppState.filtered_items, the view
VARIABLE filtered_items

\* filter_items that keeps the rows of the view it finds and puts the
\* matches after them
FilteredViewExtended(lines, items, fsItems, webItems, hist) ==
    LET query == trim(lines)
    IN  IF query = <<>> THEN reverse(hist)
        ELSE filtered_items
                 \o sort_by(FilterBy(items, query) \o FilterBy(fsItems, query)
                                \o FilterBy(webItems, query), query)

\* a filter_items that leaves the static catalog out of the view
FilteredViewBuffersOnly(lines, items, fsItems, webItems, hist) ==
    LET query == trim(lines)
    IN  IF query = <<>> THEN reverse(hist)
        ELSE sort_by(FilterBy(fsItems, query) \o FilterBy(webItems, query), query)

\* filter_items, the view: self.filtered_items afterwards
FilteredView(lines, items, fsItems, webItems, hist) ==
    LET query == trim(lines)
    IN  IF query = <<>> THEN reverse(hist)
        ELSE sort_by(FilterBy(items, query) \o FilterBy(fsItems, query)
                        \o FilterBy(webItems, query), query)

\* filter_items without its select(None) on an empty view
FilterSelectionNoReset(view, sel) ==
    IF view # <<>> /\ sel = None THEN Some(0) ELSE sel

\* filter_items, the selection: self.table_state.selected() afterwards
FilterSelection(view, sel) ==
    IF view = <<>> THEN None
    ELSE IF sel = None THEN Some(0)
    ELSE sel

\* a get_selected_item that takes the last row for an index out of range
get_selected_item_clamped(view, sel) ==
    IF IsSome(sel) /\ view # <<>>
    THEN Some(view[IF Unwrap(sel) < Len(view) THEN Unwrap(sel) + 1 ELSE Len(view)])
    ELSE None

\* AppState::get_selected_item: Vec::get is None for an index out of range
get_selected_item(view, sel) ==
    IF IsSome(sel) /\ Unwrap(sel) < Len(view) THEN Some(view[Unwrap(sel) + 1]) ELSE None

\* an identity that leaves the handler out
SameLabelAndValue(h, item) == h.label = item.label /\ h.value = item.value

(***************************************************************************)
(* history.rs: add_to_history, the in-memory part.                         *)
(***************************************************************************)
SameIdentity(h, item) ==
    h.label = item.label /\ h.handler = item.handler /\ h.value = item.value

\* an add_to_history without its retain
add_to_history_append(hist, item, t) == hist \o <<mark_executed(item, t)>>

\* an add_to_history that puts the item first
add_to_history_front(hist, item, t) ==
    <<mark_executed(item, t)>> \o SelectSeq(hist, LAMBDA h : ~SameIdentity(h, item))

\* item.mark_executed(); history.retain(..); history.push(item)
add_to_history(hist, item, t) ==
    SelectSeq(hist, LAMBDA h : ~SameIdentity(h, item)) \o <<mark_executed(item, t)>>

(***************************************************************************)
(* history.rs and core.rs: the history file.  The text of the file is a    *)
(* sequence of tokens: the brackets of the JSON array, one token per       *)
(* object, one token for all of a text that was cut off, and text that is  *)
(* no JSON at all.                                                         *)
(***************************************************************************)
\* a Serialize that leaves the metadata out
WrittenWithoutMetadata == {"label", "handler", "value", "icon", "kind"}

\* the keys serde always writes, and the keys it requires when reading
AlwaysWritten == {"label", "handler", "value", "icon", "metadata", "kind"}

RequiredKeys == {"label", "handler", "value", "icon"}

\* Serialize for CommandItem: ran_at and base64_icon are skipped when None
to_json_object(item) ==
    [keys |-> AlwaysWritten
                 \cup (IF IsSome(item.ran_at) THEN {"ran_at"} ELSE {})
                 \cup (IF IsSome(item.base64_icon) THEN {"base64_icon"} ELSE {}),
     label |-> item.label, handler |-> item.handler, value |-> item.value,
     icon |-> item.icon,
     ran_at |-> IF IsSome(item.ran_at) THEN Unwrap(item.ran_at) ELSE 0,
     base64_icon |-> IF IsSome(item.base64_icon) THEN Unwrap(item.base64_icon)
                     ELSE <<>>,
     metadata |-> item.metadata, kind |-> item.kind]

\* Deserialize for CommandItem: a missing Option is None, metadata and kind
\* have #[serde(default)]
from_json_object(obj) ==
    [label |-> obj.label, handler |-> obj.handler, value |-> obj.value,
     icon |-> obj.icon,
     ran_at |-> IF "ran_at" \in obj.keys THEN Some(obj.ran_at) ELSE None,
     base64_icon |-> IF "base64_icon" \in obj.keys THEN Some(obj.base64_icon)
                     ELSE None,
     metadata |-> IF "metadata" \in obj.keys THEN obj.metadata ELSE {},
     kind |-> IF "kind" \in obj.keys THEN obj.kind ELSE "Unknown"]

NoObject == [to_json_object(CommandItem_new(<<>>, "App", <<>>)) EXCEPT !.keys = {}]

Token(t, obj, utf8) == [t |-> t, obj |-> obj, utf8 |-> utf8]
OpenToken == Token("[", NoObject, TRUE)
CloseToken == Token("]", NoObject, TRUE)
ObjectToken(item) == Token("object", to_json_object(item), TRUE)
\* the first bytes of a JSON text that was cut off; the cut may fall inside
\* a multi-byte character (every object holds the emoji of its icon)
TornToken(utf8) == Token("torn", NoObject, utf8)
\* the text "not json"
TextToken == Token("text", NoObject, TRUE)

\* serde_json::to_string_pretty(history)
to_string_pretty(hist) ==
    <<OpenToken>> \o [i \in 1..Len(hist) |-> ObjectToken(hist[i])] \o <<CloseToken>>

\* the file: absent, or present with its text
AbsentFile == [exists |-> FALSE, text |-> <<>>]
FileWith(text) == [exists |-> TRUE, text |-> text]

\* file.read_to_string(&mut contents): an error on bytes that are no UTF-8
IsUtf8(text) == \A i \in DOMAIN text : text[i].utf8

\* serde_json::from_str::<Vec<CommandItem>>(&contents) succeeds
IsJsonHistory(text) ==
    /\ Len(text) >= 2
    /\ text[1] = OpenToken /\ text[Len(text)] = CloseToken
    /\ \A i \in 2..(Len(text) - 1) :
          text[i].t = "object" /\ RequiredKeys \subseteq text[i].obj.keys

from_str(text) ==
    [i \in 1..(Len(text) - 2) |-> from_json_object(text[i + 1].obj)]

LoadOk(hist) == [ok |-> TRUE, value |-> hist]
LoadErr == [ok |-> FALSE, value |-> <<>>]

\* load_history()
load_history(file) ==
    IF ~file.exists THEN LoadOk(<<>>)
    ELSE IF ~IsUtf8(file.text) THEN LoadErr
    ELSE IF IsJsonHistory(file.text) THEN LoadOk(from_str(file.text))
    ELSE LoadOk(<<>>)

\* what a write_all that did not write everything leaves of json: nothing
\* (the file File::create has truncated), or the first bytes of the text
Truncations(json) ==
    { <<>> } \cup { <<TornToken(utf8)>> :
                      utf8 \in IF Len(json) > 2 THEN BOOLEAN ELSE {TRUE} }

\* the ways save_history(history) can go: it returns Ok, it fails before
\* File::create (the path, the create itself), or write_all fails
SaveOutcomes == {"ok", "create failed", "write failed"}

\* the files save_history(hist) can leave, by outcome
FilesAfterSave(file, hist, outcome) ==
    IF outcome = "ok" THEN {FileWith(to_string_pretty(hist))}
    ELSE IF outcome = "create failed" THEN {file}
    ELSE {FileWith(text) : text \in Truncations(to_string_pretty(hist))}

\* a save_history that swallows its failure
SaveResultSwallowed(outcome) == "Ok"

\* the Result save_history, and with it add_to_history, returns
SaveResult(outcome) == IF outcome = "ok" THEN "Ok" ELSE "Err"

(***************************************************************************)
(* The items the sources of this model produce.                            *)
(***************************************************************************)
\* an application found by get_macos_applications
AppItem == CommandItem_new(<<"a", "b">>, "App", <<"z", "A">>)

\* a note found by notes::get_notes
NoteItem == CommandItem_new(<<"b">>, "Note", <<"z", "B">>)

\* a file found by create_fs_command
FileItem ==
    [CommandItem_new(<<"a">>, "File", <<"z", "a">>)
        EXCEPT !.metadata = {<<"type", "file">>}]

\* a suggestion built by get_web_search_suggestions
SuggestionItem == create_suggestion_command(<<"a", "a">>)

(***************************************************************************)
(* State.                                                                  *)
(***************************************************************************)
VARIABLES
    \* AppState (state.rs); filtered_items is declared with filter_items
    query,              \* the text of the query line
    items,              \* static catalog
    selected,           \* table_state.selected(): Option<usize>
    history,
    fs_items,
    web_items,
    error_message,      \* Option<String>
    \* input.rs statics
    SEARCH_GENERATION,
    WEB_SEARCH_GENERATION,
    \* spawned tasks; the task that captured generation g is element g
    fs_tasks,
    web_tasks,
    cat_fetching,       \* get_all_items tasks that have not sent yet
    note_tasks,         \* create_note / delete_note tasks in flight
    \* channels of main.rs, oldest message first
    rx_chan,
    fs_chan,
    web_chan,
    refresh_chan,
    error_chan,
    \* the session loop: "top" (start of an iteration), "poll" (waiting for
    \* a key after the draw), "exited"
    loop_pc,
    \* Local::now() as a logical clock
    now,
    \* history variables, read by the properties only
    ev,                 \* the last key handled and the selection before it
    fs_last,            \* highest generation whose batch reached fs_items
    web_last,           \* highest generation whose batch reached web_items
    \* the history store (history.rs)
    history_file,       \* grinta_history.json
    proc,               \* the process: "up", "crashed", "failed" (main
                        \* returned the error of load_history)
    rec,                \* history variable: the call of the store in the
                        \* last step
    \* the batch mode (cli.rs)
    cli_pc,             \* run_search_command: "off" (the process is not a
                        \* batch run), "collect", "stream", "completion",
                        \* "returned"
    cli_query,          \* the query of the search command
    cli_src,            \* the spawned source tasks
    cli_chan,           \* the (item, result_type) channel, oldest first
    all_results,
    scored_results,     \* the results with a positive score, sorted
    streamed,           \* how many of them the streaming loop has passed
    stdout,             \* the lines printed so far
    cli_inner,          \* the Result of run_search_command_inner: "none"
                        \* (not returned), "Ok", or the text of the error
    cli_exit            \* the Result run_search_command returns to main

appVars ==
    <<query, items, filtered_items, selected, history, fs_items, web_items,
      error_message>>

genVars == <<SEARCH_GENERATION, WEB_SEARCH_GENERATION>>

taskVars == <<fs_tasks, web_tasks, cat_fetching, note_tasks>>

chanVars == <<rx_chan, fs_chan, web_chan, refresh_chan, error_chan>>

ghostVars == <<ev, fs_last, web_last>>

storeVars == <<history_file, proc, rec>>

cliVars ==
    <<cli_pc, cli_query, cli_src, cli_chan, all_results, scored_results,
      streamed, stdout, cli_inner, cli_exit>>

vars ==
    <<appVars, genVars, taskVars, chanVars, loop_pc, now, ghostVars, storeVars,
      cliVars>>

(***************************************************************************)
(* tokio::sync::mpsc, bounded.                                             *)
(***************************************************************************)
HasCapacity(chan) == Len(chan) < ChannelCapacity

\* Sender::try_send: the message is dropped when the channel is full
try_send(chan, msg) == IF HasCapacity(chan) THEN Append(chan, msg) ELSE chan

\* a try_recv that leaves the message in the channel
AfterRecvKept(chan) == chan

\* the channel after Receiver::try_recv
AfterRecv(chan) == IF chan = <<>> THEN chan ELSE Tail(chan)

\* a result batch on fs_tx / web_tx.  gen and overtaken are history tags:
\* the generation the sending task captured (0 for the empty vec a key
\* handler sends) and whether a newer search was triggered while the task
\* was still in its delay
Batch(batchItems, g, overtaken) ==
    [items |-> batchItems, gen |-> g, overtaken |-> overtaken]

(***************************************************************************)
(* tui_textarea::TextArea::input, for a one-line text area with the        *)
(* cursor at the end of the line.                                          *)
(***************************************************************************)
KeyChar(c) == [code |-> "Char", c |-> c]

KeyBackspace == [code |-> "Backspace", c |-> ""]

\* a key that leaves the text alone (an arrow key, a function key, ...)
KeyOther == [code |-> "Other", c |-> ""]

TextAreaInput(text, key) ==
    CASE key.code = "Char" -> Append(text, key.c)
      [] key.code = "Backspace" ->
            IF text = <<>> THEN text ELSE SubSeq(text, 1, Len(text) - 1)
      [] OTHER -> text

(***************************************************************************)
(* Initial state: main() up to the loop, AppState::new.                    *)
(***************************************************************************)
\* what load_history may return at start-up
InitHistories ==
    { <<>>,
      <<mark_executed(FileItem, 0), mark_executed(NoteItem, 0),
        mark_executed(AppItem, 0)>> }

NoEvent == [key |-> "none", sel |-> None]

\* the file load_history read hist from when the process started
InitFile(hist) ==
    IF hist = <<>> THEN AbsentFile ELSE FileWith(to_string_pretty(hist))

Call(op, item, result, before, saved, old) ==
    [op |-> op, item |-> item, result |-> result, before |-> before,
     saved |-> saved, old |-> old, exec |-> "none"]
NoItem == CommandItem_new(<<>>, "App", <<>>)
NoCall == Call("none", NoItem, "none", <<>>, <<>>, <<>>)

\* cli.rs: the source tasks run_search_command_inner spawns, by the
\* result_type they send with their items
CliSources == {"app", "note", "bookmark", "shortcut", "file", "web_suggestion"}

\* a source task: "run" (fetching), "send" (sending what is in out), "done"
\* (returned, its sender dropped); failed: its fetch ended in an error
CliTask(pc, out, failed) == [pc |-> pc, out |-> out, failed |-> failed]

\* main.rs: no search command was given, the process runs the session
NoBatchRun ==
    /\ cli_pc = "off"
    /\ cli_query = <<>>
    /\ cli_src = [src \in CliSources |-> CliTask("done", <<>>, FALSE)]
    /\ cli_chan = <<>>
    /\ all_results = <<>>
    /\ scored_results = <<>>
    /\ streamed = 0
    /\ stdout = <<>>
    /\ cli_inner = "none"
    /\ cli_exit = "none"

Init ==
    /\ history \in InitHistories
    /\ query = <<>>
    /\ items = <<>>
    /\ fs_items = <<>>
    /\ web_items = <<>>
    /\ error_message = None
    /\ filtered_items = FilteredView(<<>>, <<>>, <<>>, <<>>, history)
    /\ selected = FilterSelection(filtered_items, Some(0))
    /\ SEARCH_GENERATION = 0
    /\ WEB_SEARCH_GENERATION = 0
    /\ fs_tasks = <<>>
    /\ web_tasks = <<>>
    /\ cat_fetching = 1
    /\ note_tasks = 0
    /\ rx_chan = <<>>
    /\ fs_chan = <<>>
    /\ web_chan = <<>>
    /\ refresh_chan = <<>>
    /\ error_chan = <<>>
    /\ loop_pc = "top"
    /\ now = 1
    /\ ev = NoEvent
    /\ fs_last = 0
    /\ web_last = 0
    /\ history_file = InitFile(history)
    /\ proc = "up"
    /\ rec = NoCall
    /\ NoBatchRun

(***************************************************************************)
(* input.rs: trigger_debounced_fs_search / trigger_debounced_web_search,   *)
(* the part that runs in the key handler: fetch_add and spawn.             *)
(***************************************************************************)
\* history bit: a newer search was triggered while this task still slept
MarkOvertaken(tasks) ==
    [g \in DOMAIN tasks |->
        IF tasks[g].pc = "sleep" THEN [tasks[g] EXCEPT !.overtaken = TRUE]
        ELSE tasks[g]]

\* a fetch_add that stores nothing: the update is lost
fetch_add_lost(counter, val) == [previous |-> counter, stored |-> counter]

\* AtomicU64::fetch_add(val, SeqCst): one indivisible read-modify-write that
\* returns the previous value
fetch_add(counter, val) == [previous |-> counter, stored |-> counter + val]

\* the task a trigger spawns; it owns the generation the trigger captured
NewTask(current_generation) ==
    [pc |-> "sleep", items |-> <<>>, overtaken |-> FALSE,
     current_generation |-> current_generation]

\* the task once it has returned
Returned(task) == [task EXCEPT !.pc = "done", !.items = <<>>]

\* the task after a generation check: it goes on as next, or returns
AfterCheck(latest, next) == IF latest THEN next ELSE Returned(next)

\* a task that never looks at the live counter
IsLatestUnchecked(live, current_generation) == TRUE

\* the generation check both tasks make after the delay and before sending
IsLatest(live, current_generation) == live = current_generation

(***************************************************************************)
(* input.rs: handle_key_event, one action per arm.  Every arm runs while   *)
(* the loop waits in event::poll and hands control back to the loop.       *)
(***************************************************************************)
\* the arms that end in `return true`
ExitKeys == {"Esc", "CtrlC", "Tab"}

\* a handler whose Enter arm returns true as well
SignalsExitOnEnter(name) == name \in ExitKeys \cup {"Enter"}

\* the value handle_key_event returns: true from the arms of Esc, Ctrl+C
\* and Tab, false from the end of the function
SignalsExit(name) == name \in ExitKeys

\* main.rs: `if input::handle_key_event(..) { break; }`
Handled(name) ==
    /\ loop_pc = "poll"
    /\ loop_pc' = IF SignalsExit(name) THEN "exited" ELSE "top"
    /\ ev' = [key |-> name, sel |-> selected]

\* the `_` arm: the key goes to the text area
KeyInput(key) ==
    /\ Handled("Input")
    /\ LET text == TextAreaInput(query, key)
           view == FilteredView(text, items, fs_items, web_items, history)
       IN  /\ query' = text
           /\ error_message' = None
           /\ filtered_items' = view
           /\ selected' = FilterSelection(view, selected)
           /\ IF Len(text) >= MinQueryLen
              THEN /\ SEARCH_GENERATION' = fetch_add(SEARCH_GENERATION, 1).stored
                   /\ fs_tasks' = Append(MarkOvertaken(fs_tasks),
                          NewTask(fetch_add(SEARCH_GENERATION, 1).previous + 1))
                   /\ WEB_SEARCH_GENERATION' = fetch_add(WEB_SEARCH_GENERATION, 1).stored
                   /\ web_tasks' = Append(MarkOvertaken(web_tasks),
                          NewTask(fetch_add(WEB_SEARCH_GENERATION, 1).previous + 1))
                   /\ UNCHANGED <<fs_chan, web_chan>>
              ELSE /\ fs_chan' = try_send(fs_chan, Batch(<<>>, 0, FALSE))
                   /\ web_chan' = try_send(web_chan, Batch(<<>>, 0, FALSE))
                   /\ UNCHANGED <<genVars, fs_tasks, web_tasks>>
    /\ UNCHANGED <<items, history, fs_items, web_items, cat_fetching, note_tasks,
                   rx_chan, refresh_chan, error_chan, now, fs_last, web_last>>
    /\ UNCHANGED storeVars
    /\ UNCHANGED cliVars

\* Esc, Ctrl+C and Tab (after open_chat_gpt) return true: the loop breaks
KeyExit(name) ==
    /\ name \in ExitKeys
    /\ Handled(name)
    /\ UNCHANGED <<appVars, genVars, taskVars, chanVars, now, fs_last, web_last>>
    /\ UNCHANGED storeVars
    /\ UNCHANGED cliVars

\* Ctrl+E
KeyClearError ==
    /\ Handled("ClearError")
    /\ error_message' = None
    /\ UNCHANGED <<query, items, filtered_items, selected, history, fs_items,
                   web_items, genVars, taskVars, chanVars, now, fs_last,
                   web_last>>
    /\ UNCHANGED storeVars
    /\ UNCHANGED cliVars

\* Ctrl+N
KeyCreateNote ==
    /\ Handled("CreateNote")
    /\ IF trim(query) = <<>>
       THEN /\ error_message' = Some("Cannot create note with empty query")
            /\ UNCHANGED <<query, filtered_items, selected, note_tasks>>
       ELSE LET view == FilteredView(<<>>, items, fs_items, web_items, history)
            IN  /\ error_message' = None
                /\ note_tasks' = note_tasks + 1
                /\ query' = <<>>
                /\ filtered_items' = view
                /\ selected' = FilterSelection(view, selected)
    /\ UNCHANGED <<items, history, fs_items, web_items, genVars, fs_tasks,
                   web_tasks, cat_fetching, chanVars, now, fs_last,
                   web_last>>
    /\ UNCHANGED storeVars
    /\ UNCHANGED cliVars

\* Ctrl+D
KeyDeleteNote ==
    /\ Handled("DeleteNote")
    /\ LET selected_item == get_selected_item(filtered_items, selected)
       IN  IF IsSome(selected_item) /\ Unwrap(selected_item).handler = "Note"
           THEN /\ error_message' = None
                /\ note_tasks' = note_tasks + 1
           ELSE IF IsSome(selected_item)
           THEN /\ error_message' = Some("Can only delete notes with Ctrl+D")
                /\ UNCHANGED note_tasks
           ELSE /\ error_message' = Some("No item selected to delete")
                /\ UNCHANGED note_tasks
    /\ UNCHANGED <<query, items, filtered_items, selected, history, fs_items,
                   web_items, genVars, fs_tasks, web_tasks, cat_fetching,
                   chanVars, now, fs_last, web_last>>
    /\ UNCHANGED storeVars
    /\ UNCHANGED cliVars

\* an Enter arm without its select(Some(0))
EnterSelectionKept(view, sel) == FilterSelection(view, sel)

\* the selection after Enter has cleared the query and filtered again
EnterSelection(view, sel) ==
    IF view # <<>> THEN Some(0) ELSE FilterSelection(view, sel)

\* what execute_command returns in the task Enter spawns for the item
ExecOutcomes == {"Ok", "Err"}

\* an Enter that records the item only when its execution succeeded
RecordsOnSuccess(exec) == exec = "Ok"

\* tokio::spawn(async move { let _ = execute_command(..).await; }): the
\* handler does not wait for the call, and nothing reads its Result
RecordsAfter(exec) == TRUE

\* Enter.  The execution of the item goes as exec says.  add_to_history
\* also writes the history file, which goes as outcome says; the Result of
\* the call is discarded (let _ =).
KeyEnter(outcome) ==
    /\ Handled("Enter")
    /\ LET selected_item == get_selected_item(filtered_items, selected)
       IN  IF IsSome(selected_item)
           THEN \E exec \in ExecOutcomes :
                LET hist == IF RecordsAfter(exec)
                            THEN add_to_history(history, Unwrap(selected_item), now)
                            ELSE history
                    view == FilteredView(<<>>, items, fs_items, web_items, hist)
                IN  /\ history' = hist
                    /\ history_file' \in FilesAfterSave(history_file, hist, outcome)
                    /\ rec' = [Call("record", Unwrap(selected_item),
                                    SaveResult(outcome), history, hist, <<>>)
                                   EXCEPT !.exec = exec]
                    /\ now' = now + 1
                    /\ query' = <<>>
                    /\ filtered_items' = view
                    /\ selected' = EnterSelection(view, selected)
           ELSE IF query # <<>>
           THEN LET view == FilteredView(<<>>, items, fs_items, web_items, history)
                IN  /\ rec' = Call("search_web", NoItem, "none", <<>>, <<>>, <<>>)
                    /\ query' = <<>>
                    /\ filtered_items' = view
                    /\ selected' = EnterSelection(view, selected)
                    /\ UNCHANGED <<history, history_file, now>>
           ELSE UNCHANGED <<history, history_file, rec, now, query, filtered_items,
                            selected>>
    /\ UNCHANGED <<items, fs_items, web_items, error_message, genVars, taskVars,
                   chanVars, fs_last, web_last, proc>>
    /\ UNCHANGED cliVars

\* the process is killed inside the save_history of Enter's add_to_history:
\* before File::create, between create and the end of write_all, or after
CrashInSave ==
    /\ loop_pc = "poll"
    /\ LET selected_item == get_selected_item(filtered_items, selected)
       IN  /\ IsSome(selected_item)
           /\ LET hist == add_to_history(history, Unwrap(selected_item), now)
              IN  /\ history_file' \in
                         {history_file}
                             \cup FilesAfterSave(history_file, hist, "write failed")
                             \cup FilesAfterSave(history_file, hist, "ok")
                  /\ rec' = Call("crash", Unwrap(selected_item), "none", history,
                                 hist, load_history(history_file).value)
    /\ proc' = "crashed"
    /\ now' = now + 1
    /\ UNCHANGED <<appVars, genVars, taskVars, chanVars, loop_pc, ghostVars>>
    /\ UNCHANGED cliVars

\* something other than this program leaves the text "not json" in the file
FileCorrupted ==
    /\ history_file' = FileWith(<<TextToken>>)
    /\ rec' = Call("corrupt", NoItem, "none", <<>>, <<>>, <<>>)
    /\ UNCHANGED <<appVars, genVars, taskVars, chanVars, loop_pc, now, ghostVars,
                   proc>>
    /\ UNCHANGED cliVars

\* the program is started: main up to the loop.  load_history()? returns
\* from main on Err
Start ==
    /\ proc \in {"up", "crashed"}
    /\ LET loaded == load_history(history_file)
       IN  IF loaded.ok
           THEN /\ proc' = "up"
                /\ rec' = [rec EXCEPT !.op = "load", !.result = "Ok"]
                /\ history' = loaded.value
                /\ query' = <<>>
                /\ items' = <<>>
                /\ fs_items' = <<>>
                /\ web_items' = <<>>
                /\ error_message' = None
                /\ filtered_items' = FilteredView(<<>>, <<>>, <<>>, <<>>, loaded.value)
                /\ selected' = FilterSelection(filtered_items', Some(0))
                /\ SEARCH_GENERATION' = 0
                /\ WEB_SEARCH_GENERATION' = 0
                /\ fs_tasks' = <<>>
                /\ web_tasks' = <<>>
                /\ cat_fetching' = 1
                /\ note_tasks' = 0
                /\ rx_chan' = <<>>
                /\ fs_chan' = <<>>
                /\ web_chan' = <<>>
                /\ refresh_chan' = <<>>
                /\ error_chan' = <<>>
                /\ loop_pc' = "top"
                /\ ev' = NoEvent
                /\ fs_last' = 0
                /\ web_last' = 0
           ELSE /\ proc' = "failed"
                /\ rec' = [rec EXCEPT !.op = "load", !.result = "Err"]
                /\ UNCHANGED <<appVars, genVars, taskVars, chanVars, loop_pc,
                               ghostVars>>
    /\ UNCHANGED <<history_file, now>>
    /\ UNCHANGED cliVars

\* a Down that stops on the last row instead of wrapping
DownIndexClamped(sel, len) ==
    IF IsSome(sel) THEN (IF Unwrap(sel) + 1 < len THEN Unwrap(sel) + 1 ELSE len - 1)
    ELSE 0

\* the index Down selects in a non-empty view
DownIndex(sel, len) == IF IsSome(sel) THEN (Unwrap(sel) + 1) % len ELSE 0

\* an Up that stays on the first row
UpIndexClamped(sel, len) ==
    IF IsSome(sel) THEN (IF Unwrap(sel) = 0 THEN 0 ELSE Unwrap(sel) - 1)
    ELSE 0

\* the index Up selects in a non-empty view
UpIndex(sel, len) ==
    IF IsSome(sel) THEN (IF Unwrap(sel) = 0 THEN len - 1 ELSE Unwrap(sel) - 1)
    ELSE 0

KeyDown ==
    /\ Handled("Down")
    /\ selected' = IF filtered_items # <<>>
                   THEN Some(DownIndex(selected, Len(filtered_items)))
                   ELSE selected
    /\ UNCHANGED <<query, items, filtered_items, history, fs_items, web_items,
                   error_message, genVars, taskVars, chanVars, now, fs_last,
                   web_last>>
    /\ UNCHANGED storeVars
    /\ UNCHANGED cliVars

KeyUp ==
    /\ Handled("Up")
    /\ selected' = IF filtered_items # <<>>
                   THEN Some(UpIndex(selected, Len(filtered_items)))
                   ELSE selected
    /\ UNCHANGED <<query, items, filtered_items, history, fs_items, web_items,
                   error_message, genVars, taskVars, chanVars, now, fs_last,
                   web_last>>
    /\ UNCHANGED storeVars
    /\ UNCHANGED cliVars

(***************************************************************************)
(* input.rs: the task trigger_debounced_fs_search spawns.                  *)
(*   sleep  -> the 200 ms delay                                            *)
(*   search -> spotlight_search_with_errors is running                     *)
(*   err    -> the call failed; about to send the message on error_tx      *)
(*   ready  -> the message is sent, items = vec![]; about to re-check      *)
(*   send   -> the re-check passed; about to send (or blocked in send)     *)
(*   done   -> returned                                                    *)
(* The load of the counter and the send that follows it are two steps:     *)
(* the runtime is multi-threaded and the loop runs on its own thread.      *)
(***************************************************************************)
\* the delay elapses; the first generation check
FsWake(g) ==
    /\ loop_pc # "exited"
    /\ g \in DOMAIN fs_tasks
    /\ fs_tasks[g].pc = "sleep"
    /\ fs_tasks' = [fs_tasks EXCEPT ![g] =
                        AfterCheck(IsLatest(SEARCH_GENERATION, fs_tasks[g].current_generation),
                                   [@ EXCEPT !.pc = "search"])]
    /\ UNCHANGED <<appVars, genVars, web_tasks, cat_fetching, note_tasks, chanVars,
                   loop_pc, now, ghostVars>>
    /\ UNCHANGED storeVars
    /\ UNCHANGED cliVars

\* the source call returns Ok(found); the second generation check
FsSearchOk(g, found) ==
    /\ loop_pc # "exited"
    /\ g \in DOMAIN fs_tasks
    /\ fs_tasks[g].pc = "search"
    /\ fs_tasks' = [fs_tasks EXCEPT ![g] =
                        AfterCheck(IsLatest(SEARCH_GENERATION, fs_tasks[g].current_generation),
                                   [@ EXCEPT !.pc = "send", !.items = found])]
    /\ UNCHANGED <<appVars, genVars, web_tasks, cat_fetching, note_tasks, chanVars,
                   loop_pc, now, ghostVars>>
    /\ UNCHANGED storeVars
    /\ UNCHANGED cliVars

\* the source call returns Err(error_msg): mdfind failed or timed out
FsSearchErr(g) ==
    /\ loop_pc # "exited"
    /\ g \in DOMAIN fs_tasks
    /\ fs_tasks[g].pc = "search"
    /\ fs_tasks' = [fs_tasks EXCEPT ![g].pc = "err"]
    /\ UNCHANGED <<appVars, genVars, web_tasks, cat_fetching, note_tasks, chanVars,
                   loop_pc, now, ghostVars>>
    /\ UNCHANGED storeVars
    /\ UNCHANGED cliVars

\* tx.send(error_msg).await completes; items = vec![]
FsSendError(g) ==
    /\ loop_pc # "exited"
    /\ g \in DOMAIN fs_tasks
    /\ fs_tasks[g].pc = "err"
    /\ HasCapacity(error_chan)
    /\ error_chan' = Append(error_chan, "mdfind failed")
    /\ fs_tasks' = [fs_tasks EXCEPT ![g].pc = "ready", ![g].items = <<>>]
    /\ UNCHANGED <<appVars, genVars, web_tasks, cat_fetching, note_tasks, rx_chan,
                   fs_chan, web_chan, refresh_chan, loop_pc, now, ghostVars>>
    /\ UNCHANGED storeVars
    /\ UNCHANGED cliVars

\* the second generation check, after a failed call
FsRecheck(g) ==
    /\ loop_pc # "exited"
    /\ g \in DOMAIN fs_tasks
    /\ fs_tasks[g].pc = "ready"
    /\ fs_tasks' = [fs_tasks EXCEPT ![g] =
                        AfterCheck(IsLatest(SEARCH_GENERATION, fs_tasks[g].current_generation),
                                   [@ EXCEPT !.pc = "send"])]
    /\ UNCHANGED <<appVars, genVars, web_tasks, cat_fetching, note_tasks, chanVars,
                   loop_pc, now, ghostVars>>
    /\ UNCHANGED storeVars
    /\ UNCHANGED cliVars

\* fs_tx.send(items).await completes
FsSend(g) ==
    /\ loop_pc # "exited"
    /\ g \in DOMAIN fs_tasks
    /\ fs_tasks[g].pc = "send"
    /\ HasCapacity(fs_chan)
    /\ fs_chan' = Append(fs_chan, Batch(fs_tasks[g].items, fs_tasks[g].current_generation,
                                  fs_tasks[g].overtaken))
    /\ fs_tasks' = [fs_tasks EXCEPT ![g] = Returned(@)]
    /\ UNCHANGED <<appVars, genVars, web_tasks, cat_fetching, note_tasks, rx_chan,
                   web_chan, refresh_chan, error_chan, loop_pc, now, ghostVars>>
    /\ UNCHANGED storeVars
    /\ UNCHANGED cliVars

(***************************************************************************)
(* input.rs: the task trigger_debounced_web_search spawns.                 *)
(***************************************************************************)
WebWake(g) ==
    /\ loop_pc # "exited"
    /\ g \in DOMAIN web_tasks
    /\ web_tasks[g].pc = "sleep"
    /\ web_tasks' = [web_tasks EXCEPT ![g] =
                        AfterCheck(IsLatest(WEB_SEARCH_GENERATION, web_tasks[g].current_generation),
                                   [@ EXCEPT !.pc = "search"])]
    /\ UNCHANGED <<appVars, genVars, fs_tasks, cat_fetching, note_tasks, chanVars,
                   loop_pc, now, ghostVars>>
    /\ UNCHANGED storeVars
    /\ UNCHANGED cliVars

\* get_web_search_suggestions returns Ok(suggestions); the second check
WebSearchOk(g, suggestions) ==
    /\ loop_pc # "exited"
    /\ g \in DOMAIN web_tasks
    /\ web_tasks[g].pc = "search"
    /\ web_tasks' = [web_tasks EXCEPT ![g] =
                        AfterCheck(IsLatest(WEB_SEARCH_GENERATION, web_tasks[g].current_generation),
                                   [@ EXCEPT !.pc = "send", !.items = suggestions])]
    /\ UNCHANGED <<appVars, genVars, fs_tasks, cat_fetching, note_tasks, chanVars,
                   loop_pc, now, ghostVars>>
    /\ UNCHANGED storeVars
    /\ UNCHANGED cliVars

\* get_web_search_suggestions returns Err: `if let Ok(..)` does not match
WebSearchErr(g) ==
    /\ loop_pc # "exited"
    /\ g \in DOMAIN web_tasks
    /\ web_tasks[g].pc = "search"
    /\ web_tasks' = [web_tasks EXCEPT ![g] = Returned(@)]
    /\ UNCHANGED <<appVars, genVars, fs_tasks, cat_fetching, note_tasks, chanVars,
                   loop_pc, now, ghostVars>>
    /\ UNCHANGED storeVars
    /\ UNCHANGED cliVars

\* web_tx.send(suggestions).await completes
WebSend(g) ==
    /\ loop_pc # "exited"
    /\ g \in DOMAIN web_tasks
    /\ web_tasks[g].pc = "send"
    /\ HasCapacity(web_chan)
    /\ web_chan' = Append(web_chan, Batch(web_tasks[g].items, web_tasks[g].current_generation,
                                    web_tasks[g].overtaken))
    /\ web_tasks' = [web_tasks EXCEPT ![g] = Returned(@)]
    /\ UNCHANGED <<appVars, genVars, fs_tasks, cat_fetching, note_tasks, rx_chan,
                   fs_chan, refresh_chan, error_chan, loop_pc, now, ghostVars>>
    /\ UNCHANGED storeVars
    /\ UNCHANGED cliVars

(***************************************************************************)
(* main.rs: the catalog task; input.rs: the note tasks.                    *)
(***************************************************************************)
\* get_all_items returns catalog and tx_clone.send(items).await completes
CatalogDeliver(catalog) ==
    /\ loop_pc # "exited"
    /\ cat_fetching > 0
    /\ HasCapacity(rx_chan)
    /\ rx_chan' = Append(rx_chan, catalog)
    /\ cat_fetching' = cat_fetching - 1
    /\ UNCHANGED <<appVars, genVars, fs_tasks, web_tasks, note_tasks, fs_chan,
                   web_chan, refresh_chan, error_chan, loop_pc, now, ghostVars>>
    /\ UNCHANGED storeVars
    /\ UNCHANGED cliVars

\* create_note / delete_note returns; on success refresh_tx.try_send(())
NoteTaskDone(ok) ==
    /\ loop_pc # "exited"
    /\ note_tasks > 0
    /\ note_tasks' = note_tasks - 1
    /\ refresh_chan' = IF ok THEN try_send(refresh_chan, "refresh") ELSE refresh_chan
    /\ UNCHANGED <<appVars, genVars, fs_tasks, web_tasks, cat_fetching, rx_chan,
                   fs_chan, web_chan, error_chan, loop_pc, now, ghostVars>>
    /\ UNCHANGED storeVars
    /\ UNCHANGED cliVars

(***************************************************************************)
(* ui.rs render: frame.render_stateful_widget(table, .., table_state).     *)
(* The Table widget brings the selection back into the rows it is given,   *)
(* unless the table's area is empty (a terminal too small to show it), in  *)
(* which case it returns before looking at the state.                      *)
(***************************************************************************)
RenderSelection(view, sel, area_empty) ==
    IF area_empty THEN sel
    ELSE IF view = <<>> THEN None
    ELSE IF IsSome(sel) /\ Unwrap(sel) >= Len(view) THEN Some(Len(view) - 1)
    ELSE sel

(***************************************************************************)
(* main.rs: one iteration of the loop up to event::poll: the four          *)
(* try_recv, filter_items, the refresh request, the draw.                  *)
(***************************************************************************)
\* the generation of the batch try_recv takes from chan, 0 when it takes
\* none or takes the empty vec of a key handler
AbsorbedGen(chan) == IF chan # <<>> THEN Head(chan).gen ELSE 0

LoopTick(area_empty) ==
    /\ loop_pc = "top"
    /\ LET items1 == IF rx_chan # <<>> THEN Head(rx_chan) ELSE items
           fs1 == IF fs_chan # <<>> THEN Head(fs_chan).items ELSE fs_items
           web1 == IF web_chan # <<>> THEN Head(web_chan).items ELSE web_items
           should_filter == rx_chan # <<>> \/ fs_chan # <<>> \/ web_chan # <<>>
           view == IF should_filter
                   THEN FilteredView(query, items1, fs1, web1, history)
                   ELSE filtered_items
           sel == IF should_filter THEN FilterSelection(view, selected) ELSE selected
       IN  /\ items' = items1
           /\ fs_items' = fs1
           /\ web_items' = web1
           /\ error_message' = IF error_chan # <<>> THEN Some(Head(error_chan))
                               ELSE error_message
           /\ filtered_items' = view
           /\ selected' = RenderSelection(view, sel, area_empty)
    /\ rx_chan' = AfterRecv(rx_chan)
    /\ fs_chan' = AfterRecv(fs_chan)
    /\ web_chan' = AfterRecv(web_chan)
    /\ error_chan' = AfterRecv(error_chan)
    /\ refresh_chan' = AfterRecv(refresh_chan)
    /\ cat_fetching' = IF refresh_chan # <<>> THEN cat_fetching + 1 ELSE cat_fetching
    /\ fs_last' = Max(fs_last, AbsorbedGen(fs_chan))
    /\ web_last' = Max(web_last, AbsorbedGen(web_chan))
    /\ loop_pc' = "poll"
    /\ ev' = NoEvent
    /\ UNCHANGED <<query, history, genVars, fs_tasks, web_tasks, note_tasks, now>>
    /\ rec' = NoCall
    /\ UNCHANGED <<history_file, proc>>
    /\ UNCHANGED cliVars

\* event::poll times out, or the event is no key press
PollTimeout ==
    /\ loop_pc = "poll"
    /\ loop_pc' = "top"
    /\ UNCHANGED <<appVars, genVars, taskVars, chanVars, now, ghostVars>>
    /\ UNCHANGED storeVars
    /\ UNCHANGED cliVars

(***************************************************************************)
(* Inputs of the environment.                                              *)
(***************************************************************************)
\* what spotlight_search_with_errors finds when it succeeds
FsResults == {<<FileItem>>}

\* what get_web_search_suggestions returns when it succeeds
WebResults == {<<SuggestionItem>>}

\* what get_all_items returns
CatalogResults == {<<AppItem, NoteItem>>}

\* the keys that reach the text area
InputKeys == {KeyChar("a"), KeyBackspace, KeyOther}

\* no search task is between the end of its delay and its return
NoSearchRunning ==
    /\ \A g \in DOMAIN fs_tasks : fs_tasks[g].pc \in {"sleep", "done"}
    /\ \A g \in DOMAIN web_tasks : web_tasks[g].pc \in {"sleep", "done"}

\* the step triggers a search
Triggers == SEARCH_GENERATION' # SEARCH_GENERATION

(***************************************************************************)
(* The steps of the tasks.                                                 *)
(***************************************************************************)
FsStep ==
    \/ \E g \in DOMAIN fs_tasks : FsWake(g)
    \/ \E g \in DOMAIN fs_tasks : \E found \in FsResults : FsSearchOk(g, found)
    \/ \E g \in DOMAIN fs_tasks : FsSend(g)

FsFailStep ==
    \/ \E g \in DOMAIN fs_tasks : FsSearchErr(g)
    \/ \E g \in DOMAIN fs_tasks : FsSendError(g)
    \/ \E g \in DOMAIN fs_tasks : FsRecheck(g)

WebStep ==
    \/ \E g \in DOMAIN web_tasks : WebWake(g)
    \/ \E g \in DOMAIN web_tasks : \E found \in WebResults : WebSearchOk(g, found)
    \/ \E g \in DOMAIN web_tasks : WebSend(g)

WebFailStep == \E g \in DOMAIN web_tasks : WebSearchErr(g)

LoopStep ==
    \/ \E area_empty \in BOOLEAN : LoopTick(area_empty)
    \/ PollTimeout

(***************************************************************************)
(* SpecDispatch: the debounced dispatcher under every interleaving of      *)
(* query edits, task steps (failures included) and loop iterations.  The   *)
(* history is empty and the catalog task has not answered yet.             *)
(***************************************************************************)
InitDispatch == Init /\ history = <<>>

NextDispatch ==
    \/ LoopStep
    \/ \E key \in InputKeys :
          KeyInput(key) /\ Len(query') <= MaxQueryLen /\ SEARCH_GENERATION' <= MaxGen
    \/ FsStep
    \/ FsFailStep
    \/ WebStep
    \/ WebFailStep

SpecDispatch == InitDispatch /\ [][NextDispatch]_vars

(***************************************************************************)
(* SpecBurst: the dispatcher when the user types in bursts: an edit that   *)
(* triggers a search comes only while every earlier search task is still   *)
(* in its delay or has returned.                                           *)
(***************************************************************************)
NextBurst ==
    \/ LoopStep
    \/ \E key \in InputKeys :
          /\ KeyInput(key)
          /\ Len(query') <= MaxQueryLen
          /\ SEARCH_GENERATION' <= MaxBurst
          /\ Triggers => NoSearchRunning
    \/ FsStep
    \/ FsFailStep
    \/ WebStep
    \/ WebFailStep

SpecBurst == InitDispatch /\ [][NextBurst]_vars

(***************************************************************************)
(* Spec: the whole session, every key of handle_key_event.  The file       *)
(* search answers; the suggestion service does not answer within the run   *)
(* (its tasks stay in their delay), and the user triggers a new search     *)
(* only when no earlier one is running.  The history file is written       *)
(* without failure.                                                        *)
(***************************************************************************)
SessionBounds ==
    /\ Len(query') <= MaxQueryLen
    /\ SEARCH_GENERATION' <= MaxGenSession
    /\ Triggers => NoSearchRunning
    /\ now' <= MaxExec + 1
    /\ SEARCH_GENERATION' + (now' - 1) + note_tasks' + cat_fetching'
           + Len(refresh_chan') <= MaxSessionOps
    /\ note_tasks' + cat_fetching' + Len(refresh_chan') <= MaxBgTasks

Next ==
    \/ LoopStep
    \/ \E key \in InputKeys : KeyInput(key) /\ SessionBounds
    \/ \E name \in ExitKeys : KeyExit(name)
    \/ KeyClearError
    \/ KeyCreateNote /\ SessionBounds
    \/ KeyDeleteNote /\ SessionBounds
    \/ KeyEnter("ok") /\ SessionBounds
    \/ KeyDown
    \/ KeyUp
    \/ FsStep
    \/ \E catalog \in CatalogResults : CatalogDeliver(catalog)
    \/ \E ok \in BOOLEAN : NoteTaskDone(ok)

Spec == Init /\ [][Next]_vars

(***************************************************************************)
(* SpecHistory: the history store under the session.  The user moves the   *)
(* selection, types one-letter queries and executes items; the write of    *)
(* the history file can fail or be cut short, the process can be killed    *)
(* inside it, the file can be damaged from outside, and the program can be *)
(* started again.  No search runs.                                         *)
(***************************************************************************)
\* an item with the label and the value of AppItem and another handler
AppAsNote == CommandItem_new(AppItem.label, "Note", AppItem.value)

StoreCatalogs == {<<AppItem, NoteItem, AppAsNote>>}

NextHistory ==
    \/ /\ proc = "up"
       /\ \/ LoopStep
          \/ \E key \in InputKeys :
                /\ KeyInput(key)
                /\ Len(query') <= MaxStoreQueryLen
                /\ SEARCH_GENERATION' <= MaxGenSession
          \/ KeyDown
          \/ KeyUp
          \/ \E outcome \in SaveOutcomes : KeyEnter(outcome) /\ now' <= MaxRecords + 1
          \/ CrashInSave /\ now' <= MaxRecords + 1
          \/ \E catalog \in StoreCatalogs : CatalogDeliver(catalog)
    \/ FileCorrupted /\ rec.op # "corrupt"
    \/ Start

SpecHistory == Init /\ [][NextHistory]_vars

(***************************************************************************)
(* SpecFilter: AppState::filter_items as a function.  The state is built   *)
(* as the tests of state.rs build it (AppState::new, then the buffers and  *)
(* the query set directly) and filter_items is called on it, once or       *)
(* several times.                                                          *)
(***************************************************************************)
\* applications whose names differ in how letter case sorts
ZaApp == CommandItem_new(<<"Z", "a">>, "App", <<"z">>)
BaApp == CommandItem_new(<<"b", "a">>, "App", <<"z">>)

\* automation.rs get_shortcuts: a shortcut, ranked as an app
ShortcutItem ==
    [CommandItem_new(<<"z", "a">>, "Automation", <<"z", "a">>)
        EXCEPT !.metadata = {<<"type", "shortcut">>}, !.kind = "App"]

FilterQueries == {<<>>, <<" ">>, <<"a">>, <<"A">>, <<"a", "b">>}

FilterCatalogs ==
    { <<>>,
      <<AppItem, NoteItem>>,
      <<ZaApp, BaApp, ShortcutItem>> }

FilterFsBuffers == {<<>>, <<FileItem>>}

FilterWebBuffers == {<<>>, <<SuggestionItem>>}

FilterErrors == {None, Some("mdfind failed")}

FilterSelections == {None, Some(0), Some(1)}

InitFilter ==
    /\ history \in InitHistories
    /\ query \in FilterQueries
    /\ items \in FilterCatalogs
    /\ fs_items \in FilterFsBuffers
    /\ web_items \in FilterWebBuffers
    /\ error_message \in FilterErrors
    /\ filtered_items = reverse(history)
    /\ selected \in FilterSelections
    /\ SEARCH_GENERATION = 0
    /\ WEB_SEARCH_GENERATION = 0
    /\ fs_tasks = <<>>
    /\ web_tasks = <<>>
    /\ cat_fetching = 0
    /\ note_tasks = 0
    /\ rx_chan = <<>>
    /\ fs_chan = <<>>
    /\ web_chan = <<>>
    /\ refresh_chan = <<>>
    /\ error_chan = <<>>
    /\ loop_pc = "top"
    /\ now = 1
    /\ ev = NoEvent
    /\ fs_last = 0
    /\ web_last = 0
    /\ history_file = InitFile(history)
    /\ proc = "up"
    /\ rec = NoCall
    /\ NoBatchRun

\* a filter_items that also clears the error message
filter_items_clearing_error ==
    /\ filtered_items' = FilteredView(query, items, fs_items, web_items, history)
    /\ selected' = FilterSelection(filtered_items', selected)
    /\ ev' = [key |-> "filter_items", sel |-> selected]
    /\ error_message' = None
    /\ UNCHANGED <<query, items, history, fs_items, web_items>>
    /\ UNCHANGED <<genVars, taskVars, chanVars, loop_pc, now, fs_last, web_last>>
    /\ UNCHANGED storeVars
    /\ UNCHANGED cliVars

\* AppState::filter_items
filter_items ==
    /\ filtered_items' = FilteredView(query, items, fs_items, web_items, history)
    /\ selected' = FilterSelection(filtered_items', selected)
    /\ ev' = [key |-> "filter_items", sel |-> selected]
    /\ UNCHANGED <<query, items, history, fs_items, web_items, error_message>>
    /\ UNCHANGED <<genVars, taskVars, chanVars, loop_pc, now, fs_last, web_last>>
    /\ UNCHANGED storeVars
    /\ UNCHANGED cliVars

NextFilter == filter_items

SpecFilter == InitFilter /\ [][NextFilter]_vars

(***************************************************************************)
(* cli.rs: the batch mode, run_search_command.                             *)
(***************************************************************************)
\* mpsc::channel::<(CommandItem, String)>(100)
CliChannelCapacity == 100

\* what the machine holds: applications, notes, bookmarks, shortcuts
\* an application the machine has many of: more than the channel holds
BbApp == CommandItem_new(<<"b", "b">>, "App", <<"z">>)

ManyApps == [i \in 1..(CliChannelCapacity + 1) |-> BbApp]

CliApps == <<ZaApp, BaApp>> \o ManyApps
CliNotes == <<NoteItem>>
CliBookmarks == <<>>
CliShortcuts == <<ShortcutItem>>

\* fs.rs fast_file_search: the item of a path without a dot
CliFolderItem ==
    [CommandItem_new(<<"a">>, "Folder", <<"z", "a">>)
        EXCEPT !.metadata = {<<"type", "folder">>}]

\* how a fetch of the file search or of the suggestions can end
FetchOutcomes == {"ok", "failed"}

\* the name filter of the applications task
NameContains(list, lower_query) ==
    SelectSeq(list, LAMBDA item : contains(to_lowercase(item.label), lower_query))

\* the filter of the notes, bookmarks and shortcuts tasks
LabelOrValueContains(list, lower_query) ==
    SelectSeq(list, LAMBDA item :
        \/ contains(to_lowercase(item.label), lower_query)
        \/ contains(to_lowercase(item.value), lower_query))

\* fast_file_search: nothing for a query shorter than 2, nothing when
\* mdfind fails or times out
fast_file_search(q, outcome) ==
    IF Len(q) < 2 THEN <<>>
    ELSE IF outcome = "failed" THEN <<>>
    ELSE <<CliFolderItem>>

\* what the web task sends: the suggestions on Ok, nothing on Err
WebSuggestionsSent(q, outcome) ==
    IF outcome = "failed" THEN <<>> ELSE <<SuggestionItem>>

\* the items a source task sends for the query
Fetched(src, q, outcome) ==
    CASE src = "app" -> NameContains(CliApps, to_lowercase(q))
      [] src = "note" -> LabelOrValueContains(CliNotes, to_lowercase(q))
      [] src = "bookmark" -> LabelOrValueContains(CliBookmarks, to_lowercase(q))
      [] src = "shortcut" -> LabelOrValueContains(CliShortcuts, to_lowercase(q))
      [] src = "file" -> fast_file_search(q, outcome)
      [] src = "web_suggestion" -> WebSuggestionsSent(q, outcome)

\* only the file search and the suggestions can end in an error
CanFail(src, q) ==
    \/ src = "file" /\ Len(q) >= 2
    \/ src = "web_suggestion"

\* CommandOutput::from(&CommandItem)
CommandOutput_from(item) ==
    [label |-> item.label, handler |-> item.handler, value |-> item.value,
     icon |-> item.icon, base64_icon |-> item.base64_icon]

\* the line stream_result prints
ResultLine(item, result_type) ==
    [type |-> result_type, data |-> CommandOutput_from(item)]

\* a completion marker that always reports success
CompletionAlwaysSuccess(result) == [type |-> "completion", status |-> "success"]

\* the completion marker run_search_command prints for the Result of
\* run_search_command_inner
Completion(result) ==
    IF result = "Ok" THEN [type |-> "completion", status |-> "success"]
    ELSE [type |-> "completion", status |-> "error", error |-> result]

\* handles awaited with `?` on a Result of the task
JoinResultPropagated(tasks) ==
    IF \E src \in DOMAIN tasks : tasks[src].failed THEN "source failed" ELSE "Ok"

\* for handle in handles { let _ = handle.await; }: what the tasks return
\* is dropped
JoinResult(tasks) == "Ok"

\* a_type_bonus / b_type_bonus of the sort closure
type_bonus(kind) ==
    CASE kind = "App" -> 200
      [] kind = "Note" -> 150
      [] kind = "Bookmark" -> 100
      [] kind = "Unknown" -> 50
      [] kind = "WebSearch" -> 25
      [] kind = "WebSuggestion" -> 0

\* the filter_map: an element ((item, result_type), max_score)
Scored(r, q) ==
    [item |-> r.item, result_type |-> r.result_type,
     score |-> ItemFuzzy(r.item, q)]

\* a_combined_score / b_combined_score
CombinedScore(e) == e.score + type_bonus(e.item.kind)

\* a last level of the closure that compares the labels as they are
CliLabelCmpBytes(a, b) == StrCmp(a.item.label, b.item.label)

\* the last level of the closure: the lower-cased labels
CliLabelCmp(a, b) == StrCmp(to_lowercase(a.item.label), to_lowercase(b.item.label))

\* the closure given to scored_results.sort_by
CliCompare(a, b) ==
    LET byScore == IntCmp(CombinedScore(b), CombinedScore(a))
    IN  IF byScore # "Equal" THEN byScore ELSE CliLabelCmp(a, b)

RECURSIVE CliStableInsert(_, _)
CliStableInsert(sorted, x) ==
    IF sorted = <<>> THEN <<x>>
    ELSE IF CliCompare(x, Head(sorted)) = "Less" THEN <<x>> \o sorted
    ELSE <<Head(sorted)>> \o CliStableInsert(Tail(sorted), x)

RECURSIVE cli_sort_by(_)
cli_sort_by(v) ==
    IF v = <<>> THEN <<>>
    ELSE CliStableInsert(cli_sort_by(SubSeq(v, 1, Len(v) - 1)), v[Len(v)])

\* scored_results after the filter_map and the sort
ScoredAndSorted(results, q) ==
    cli_sort_by(SelectSeq([i \in 1..Len(results) |-> Scored(results[i], q)],
                          LAMBDA e : e.score > 0))

sessionVars ==
    <<appVars, genVars, taskVars, chanVars, loop_pc, now, ghostVars, storeVars>>

\* a source task gets what its source has for the query
CliFetch(src, outcome) ==
    /\ cli_pc = "collect"
    /\ cli_src[src].pc = "run"
    /\ outcome = "failed" => CanFail(src, cli_query)
    /\ cli_src' = [cli_src EXCEPT ![src] =
                       CliTask("send", Fetched(src, cli_query, outcome),
                               outcome = "failed")]
    /\ UNCHANGED <<cli_pc, cli_query, cli_chan, all_results, scored_results,
                   streamed, stdout, cli_inner, cli_exit>>
    /\ UNCHANGED sessionVars

\* tx.send((item, result_type)).await
CliSend(src) ==
    /\ cli_pc = "collect"
    /\ cli_src[src].pc = "send"
    /\ cli_src[src].out # <<>>
    /\ Len(cli_chan) < CliChannelCapacity
    /\ cli_chan' = Append(cli_chan,
                          [item |-> Head(cli_src[src].out), result_type |-> src])
    /\ cli_src' = [cli_src EXCEPT ![src].out = Tail(@)]
    /\ UNCHANGED <<cli_pc, cli_query, all_results, scored_results, streamed,
                   stdout, cli_inner, cli_exit>>
    /\ UNCHANGED sessionVars

\* a task that ends without dropping its sender
CliTaskParks(src) ==
    /\ cli_pc = "collect"
    /\ cli_src[src].pc = "send"
    /\ cli_src[src].out = <<>>
    /\ cli_src' = [cli_src EXCEPT ![src].pc = "parked"]
    /\ UNCHANGED <<cli_pc, cli_query, cli_chan, all_results, scored_results,
                   streamed, stdout, cli_inner, cli_exit>>
    /\ UNCHANGED sessionVars

\* the task returns: its clone of tx is dropped
CliTaskReturn(src) ==
    /\ cli_pc = "collect"
    /\ cli_src[src].pc = "send"
    /\ cli_src[src].out = <<>>
    /\ cli_src' = [cli_src EXCEPT ![src].pc = "done"]
    /\ UNCHANGED <<cli_pc, cli_query, cli_chan, all_results, scored_results,
                   streamed, stdout, cli_inner, cli_exit>>
    /\ UNCHANGED sessionVars

\* rx.recv() returns Some: all_results.push
CliRecv ==
    /\ cli_pc = "collect"
    /\ cli_chan # <<>>
    /\ all_results' = Append(all_results, Head(cli_chan))
    /\ cli_chan' = Tail(cli_chan)
    /\ UNCHANGED <<cli_pc, cli_query, cli_src, scored_results, streamed, stdout,
                   cli_inner, cli_exit>>
    /\ UNCHANGED sessionVars

\* rx.recv() returns None (the channel is empty and every sender dropped),
\* the handles are awaited, the results are scored and sorted
CliCollected ==
    /\ cli_pc = "collect"
    /\ cli_chan = <<>>
    /\ \A src \in CliSources : cli_src[src].pc = "done"
    /\ IF JoinResult(cli_src) = "Ok"
       THEN /\ scored_results' = ScoredAndSorted(all_results, cli_query)
            /\ cli_pc' = "stream"
            /\ UNCHANGED cli_inner
       ELSE /\ cli_inner' = JoinResult(cli_src)
            /\ cli_pc' = "completion"
            /\ UNCHANGED scored_results
    /\ UNCHANGED <<cli_query, cli_src, cli_chan, all_results, streamed, stdout,
                   cli_exit>>
    /\ UNCHANGED sessionVars

\* how a flush of stdout can end
FlushOutcomes == {"ok", "failed"}

\* stream_result for the next element: the line is printed, and an error
\* of the flush ends run_search_command_inner with Err
CliStream(outcome) ==
    /\ cli_pc = "stream"
    /\ streamed < Len(scored_results)
    /\ stdout' = Append(stdout, ResultLine(scored_results[streamed + 1].item,
                                           scored_results[streamed + 1].result_type))
    /\ streamed' = streamed + 1
    /\ IF outcome = "ok"
       THEN UNCHANGED <<cli_pc, cli_inner>>
       ELSE /\ cli_inner' = "flush failed"
            /\ cli_pc' = "completion"
    /\ UNCHANGED <<cli_query, cli_src, cli_chan, all_results, scored_results,
                   cli_exit>>
    /\ UNCHANGED sessionVars

\* every element was streamed: run_search_command_inner returns Ok(())
CliInnerOk ==
    /\ cli_pc = "stream"
    /\ streamed = Len(scored_results)
    /\ cli_inner' = "Ok"
    /\ cli_pc' = "completion"
    /\ UNCHANGED <<cli_query, cli_src, cli_chan, all_results, scored_results,
                   streamed, stdout, cli_exit>>
    /\ UNCHANGED sessionVars

\* run_search_command prints the completion marker, flushes and returns
\* its own flush error or the Result of run_search_command_inner
CliCompletion(outcome) ==
    /\ cli_pc = "completion"
    /\ stdout' = Append(stdout, Completion(cli_inner))
    /\ cli_exit' = IF outcome = "ok" THEN cli_inner ELSE "flush failed"
    /\ cli_pc' = "returned"
    /\ UNCHANGED <<cli_query, cli_src, cli_chan, all_results, scored_results,
                   streamed, cli_inner>>
    /\ UNCHANGED sessionVars

(***************************************************************************)
(* SpecCli: one batch run, `search <query>`, under every interleaving of   *)
(* the six source tasks and the collecting loop; the file search and the   *)
(* suggestion request can fail, and so can a flush of stdout.              *)
(***************************************************************************)
CliQueries == {<<"a">>, <<"z", "a">>}

InitCliWith(queries) ==
    /\ history = <<>>
    /\ query = <<>>
    /\ items = <<>>
    /\ fs_items = <<>>
    /\ web_items = <<>>
    /\ error_message = None
    /\ filtered_items = <<>>
    /\ selected = None
    /\ SEARCH_GENERATION = 0
    /\ WEB_SEARCH_GENERATION = 0
    /\ fs_tasks = <<>>
    /\ web_tasks = <<>>
    /\ cat_fetching = 0
    /\ note_tasks = 0
    /\ rx_chan = <<>>
    /\ fs_chan = <<>>
    /\ web_chan = <<>>
    /\ refresh_chan = <<>>
    /\ error_chan = <<>>
    /\ loop_pc = "top"
    /\ now = 1
    /\ ev = NoEvent
    /\ fs_last = 0
    /\ web_last = 0
    /\ history_file = AbsentFile
    /\ proc = "up"
    /\ rec = NoCall
    /\ cli_pc = "collect"
    /\ cli_query \in queries
    /\ cli_src = [src \in CliSources |-> CliTask("run", <<>>, FALSE)]
    /\ cli_chan = <<>>
    /\ all_results = <<>>
    /\ scored_results = <<>>
    /\ streamed = 0
    /\ stdout = <<>>
    /\ cli_inner = "none"
    /\ cli_exit = "none"

InitCli == InitCliWith(CliQueries)

NextCli ==
    \/ \E src \in CliSources, outcome \in FetchOutcomes : CliFetch(src, outcome)
    \/ \E src \in CliSources : CliSend(src)
    \/ \E src \in CliSources : CliTaskReturn(src)
    \/ CliRecv
    \/ CliCollected
    \/ \E outcome \in FlushOutcomes : CliStream(outcome)
    \/ CliInnerOk
    \/ \E outcome \in FlushOutcomes : CliCompletion(outcome)

SpecCli == InitCli /\ [][NextCli]_vars

(***************************************************************************)
(* Properties of the search dispatch (SpecDispatch, SpecBurst).            *)
(***************************************************************************)
\* a step of the loop that takes a task's batch from the channel
AbsorbsFs == loop_pc = "top" /\ loop_pc' = "poll" /\ AbsorbedGen(fs_chan) # 0
AbsorbsWeb == loop_pc = "top" /\ loop_pc' = "poll" /\ AbsorbedGen(web_chan) # 0

\* C1: every batch the loop absorbs into fs_items or web_items comes from a
\* task whose captured generation equals the live counter at the moment of
\* the absorption; a batch that is stale at that moment is not absorbed.
C1_AbsorbedBatchIsCurrent ==
    [][ /\ AbsorbsFs => AbsorbedGen(fs_chan) = SEARCH_GENERATION
        /\ AbsorbsWeb => AbsorbedGen(web_chan) = WEB_SEARCH_GENERATION ]_vars

\* C2: once the loop has absorbed a batch of generation g from a source, it
\* never afterwards absorbs a batch of a lower generation from that source.
C2_NeverAbsorbsOlder ==
    [][ /\ AbsorbsFs => AbsorbedGen(fs_chan) >= fs_last
        /\ AbsorbsWeb => AbsorbedGen(web_chan) >= web_last ]_vars

\* C3: after a burst of edits, each made before the debounce delay of the
\* one before has elapsed, no task overtaken in its delay ever hands a batch
\* to the loop: the only batch of the burst is the one of the highest
\* generation.
C3_BurstOnlyLatest ==
    /\ \A g \in DOMAIN fs_tasks :
          fs_tasks[g].overtaken => fs_tasks[g].pc \in {"sleep", "done"}
    /\ \A g \in DOMAIN web_tasks :
          web_tasks[g].overtaken => web_tasks[g].pc \in {"sleep", "done"}
    /\ \A i \in DOMAIN fs_chan : ~fs_chan[i].overtaken
    /\ \A i \in DOMAIN web_chan : ~web_chan[i].overtaken
    /\ fs_last # 0 => ~fs_tasks[fs_last].overtaken
    /\ web_last # 0 => ~web_tasks[web_last].overtaken

\* a burst of two edits is over: the first task was overtaken in its delay
\* and has returned, the batch of the second has been absorbed
C3_Witness ==
    /\ Len(fs_tasks) = 2
    /\ fs_tasks[1].overtaken /\ fs_tasks[1].pc = "done"
    /\ fs_last = 2 /\ fs_items # <<>>
    /\ web_tasks[1].overtaken /\ web_tasks[1].pc = "done"
    /\ web_last = 2 /\ web_items # <<>>

\* a step of handle_key_event's `_` arm
InputStep == loop_pc = "poll" /\ ev'.key = "Input"

\* C4: immediately after an edit that leaves fewer than MinQueryLen
\* characters, fs_items and web_items are empty, and the edit starts no
\* search task.
C4_ShortQueryClearsBuffers ==
    [][ InputStep /\ Len(query') < MinQueryLen =>
            /\ fs_items' = <<>> /\ web_items' = <<>>
            /\ UNCHANGED <<genVars, fs_tasks, web_tasks>> ]_vars

\* the task of generation g has found, or will find at its next check,
\* that it is stale
FsStale(g) == SEARCH_GENERATION # g
WebStale(g) == WEB_SEARCH_GENERATION # g

\* C5: a task whose generation is stale when its delay ends or when its
\* source call returns abandons silently: it returns without handing over a
\* batch and without an error message for the error channel.
C5_StaleTaskIsSilent ==
    [][ /\ \A g \in DOMAIN fs_tasks :
              FsStale(g) /\ fs_tasks[g].pc \in {"sleep", "search"}
                         /\ fs_tasks'[g].pc # fs_tasks[g].pc
                  => fs_tasks'[g].pc = "done"
        /\ \A g \in DOMAIN web_tasks :
              WebStale(g) /\ web_tasks[g].pc \in {"sleep", "search"}
                          /\ web_tasks'[g].pc # web_tasks[g].pc
                  => web_tasks'[g].pc = "done" ]_vars

\* C6: a source call that fails while its generation is current ends in an
\* empty batch handed to the channel, for the file search (after its error
\* message) and for the suggestions alike.
C6_FailureDeliversEmptyBatch ==
    [][ /\ \A g \in DOMAIN fs_tasks :
              /\ ~FsStale(g) /\ fs_tasks[g].pc = "search"
                             /\ fs_tasks'[g].pc # "search"
                    => fs_tasks'[g].pc \in {"send", "err"}
              /\ ~FsStale(g) /\ fs_tasks[g].pc = "ready"
                             /\ fs_tasks'[g].pc # "ready"
                    => fs_tasks'[g].pc = "send" /\ fs_tasks'[g].items = <<>>
        /\ \A g \in DOMAIN web_tasks :
              ~WebStale(g) /\ web_tasks[g].pc = "search"
                           /\ web_tasks'[g].pc # "search"
                  => web_tasks'[g].pc = "send" ]_vars

(***************************************************************************)
(* Properties of the selection (Spec).                                     *)
(***************************************************************************)
InRange(sel, view) == IsSome(sel) => Unwrap(sel) < Len(view)

\* C7: the selection, when present, is an index of the view:
\* 0 <= i < Len(filtered_items), also after the view has shrunk.
C7_SelectionInRange == InRange(selected, filtered_items)

\* C8: the selection is absent exactly when the view is empty; a view that
\* becomes non-empty while the selection is absent selects index 0.
C8_AbsentIffEmpty ==
    /\ [](selected = None <=> filtered_items = <<>>)
    /\ [][ selected = None /\ filtered_items' # <<>> => selected' = Some(0) ]_vars

\* an edit has emptied a view that had a selection: the selection is gone
C8_Witness ==
    /\ ev.key = "Input" /\ IsSome(ev.sel)
    /\ filtered_items = <<>> /\ selected = None

\* a step of the Down or of the Up arm
DownStep == loop_pc = "poll" /\ ev'.key = "Down"
UpStep == loop_pc = "poll" /\ ev'.key = "Up"

\* C9: on a non-empty view Down moves Selected(i) to (i + 1) mod len and Up
\* moves it to len - 1 from 0 and to i - 1 otherwise; on an empty view both
\* keys change nothing and the selection stays absent.
C9_NavigationWraps ==
    [][ /\ DownStep /\ filtered_items # <<>> /\ IsSome(selected) =>
               selected' = Some((Unwrap(selected) + 1) % Len(filtered_items))
        /\ UpStep /\ filtered_items # <<>> /\ IsSome(selected) =>
               selected' = IF Unwrap(selected) = 0
                           THEN Some(Len(filtered_items) - 1)
                           ELSE Some(Unwrap(selected) - 1)
        /\ (DownStep \/ UpStep) /\ filtered_items = <<>> =>
               /\ selected = None /\ selected' = None
               /\ UNCHANGED <<query, items, filtered_items, history, fs_items,
                              web_items, error_message>> ]_vars

\* Down on the last row of a view of several rows has wrapped to row 0
C9_Witness ==
    /\ ev.key = "Down"
    /\ Len(filtered_items) >= 2
    /\ ev.sel = Some(Len(filtered_items) - 1)
    /\ selected = Some(0)

\* C10: after Down or Up on a non-empty view the selection is an index of
\* the view, whatever the selection was before the key.
C10_NavigationRevalidates ==
    [][ (DownStep \/ UpStep) /\ filtered_items # <<>> =>
            IsSome(selected') /\ InRange(selected', filtered_items') ]_vars

\* a step of the Enter arm that finds a selected item and executes it
EnterStep == loop_pc = "poll" /\ ev'.key = "Enter"
ExecutesSelected == EnterStep /\ IsSome(get_selected_item(filtered_items, selected))

\* C11: after Enter has executed the selected item the query is empty, the
\* view is the history most recent first, its row 0 is the item just
\* executed (stamped), and the selection is row 0.
C11_EnterResetsToHistory ==
    [][ ExecutesSelected =>
            /\ query' = <<>>
            /\ filtered_items' = reverse(history')
            /\ filtered_items'[1] =
                   mark_executed(Unwrap(get_selected_item(filtered_items, selected)), now)
            /\ selected' = Some(0) ]_vars

\* Enter on a row other than the first has executed that row's item, which
\* is now row 0 of the history view and selected
C11_Witness ==
    /\ ev.key = "Enter" /\ loop_pc = "top"
    /\ IsSome(ev.sel) /\ Unwrap(ev.sel) > 0
    /\ history # <<>> /\ history[Len(history)].ran_at = Some(now - 1)
    /\ query = <<>> /\ selected = Some(0)
    /\ filtered_items[1] = history[Len(history)]
    /\ Len(filtered_items) >= 2

(***************************************************************************)
(* Properties of the history store (SpecHistory).                          *)
(***************************************************************************)
\* the identity key of an item
IdentityKey(item) == <<item.label, item.handler, item.value>>

HasIdentity(hist, item) ==
    \E i \in DOMAIN hist : IdentityKey(hist[i]) = IdentityKey(item)

NoDuplicates(hist) ==
    \A i, j \in DOMAIN hist : IdentityKey(hist[i]) = IdentityKey(hist[j]) => i = j

\* the entries of hist with another identity than item, in their order
Others(hist, item) ==
    SelectSeq(hist, LAMBDA h : IdentityKey(h) # IdentityKey(item))

\* a step in which add_to_history has run and returned
RecordStep == ExecutesSelected /\ rec'.op = "record"

\* C12: from a history without two entries of one identity key (label,
\* handler, value), any sequence of add_to_history calls leaves at most one
\* entry per identity key.
C12_OneEntryPerIdentity == NoDuplicates(history)

\* an item already in the history has been recorded again
C12_Witness ==
    /\ rec.op = "record" /\ HasIdentity(rec.before, rec.item)
    /\ Len(history) >= 2 /\ HasIdentity(history, rec.item)

\* C13: recording an item whose identity key is already in the history
\* leaves the length unchanged, puts the newly stamped entry last and keeps
\* the other entries in their order.
C13_DuplicateMovesToEnd ==
    [][ RecordStep /\ HasIdentity(history, rec'.item) =>
            /\ Len(history') = Len(history)
            /\ history'[Len(history')] = mark_executed(rec'.item, now)
            /\ history'[Len(history')].ran_at = Some(now)
            /\ SubSeq(history', 1, Len(history') - 1) = Others(history, rec'.item)
      ]_vars

\* the first of three entries has been recorded again and is now the last
C13_Witness ==
    /\ rec.op = "record"
    /\ Len(rec.before) >= 3 /\ IdentityKey(rec.before[1]) = IdentityKey(rec.item)
    /\ Len(history) = Len(rec.before)
    /\ IdentityKey(history[Len(history)]) = IdentityKey(rec.item)
    /\ history[Len(history)].ran_at # rec.before[1].ran_at
    /\ history[1] = rec.before[2] /\ history[2] = rec.before[3]

\* C14: recording an item that differs from every entry in label, handler
\* or value removes nothing and appends the item: the history grows by one.
C14_NewIdentityAppends ==
    [][ RecordStep /\ ~HasIdentity(history, rec'.item) =>
            history' = history \o <<mark_executed(rec'.item, now)>> ]_vars

\* an item has been recorded next to an entry with its label and its value
\* and another handler
C14_Witness ==
    /\ rec.op = "record"
    /\ ~HasIdentity(rec.before, rec.item)
    /\ \E i \in DOMAIN rec.before :
          /\ rec.before[i].label = rec.item.label
          /\ rec.before[i].value = rec.item.value
          /\ rec.before[i].handler # rec.item.handler
    /\ Len(history) = Len(rec.before) + 1
    /\ SubSeq(history, 1, Len(rec.before)) = rec.before

\* C15: when the write of the file fails inside add_to_history, the call
\* returns the failure, the history in memory holds the update all the
\* same, and the session goes on.
C15_FailedSaveKeepsUpdate ==
    [][ RecordStep /\ history_file' # FileWith(to_string_pretty(history')) =>
            /\ rec'.result = "Err"
            /\ history' = Others(history, rec'.item)
                              \o <<mark_executed(rec'.item, now)>>
            /\ proc' = "up" /\ loop_pc' = "top" ]_vars

\* an execution whose save failed: the file does not hold the history the
\* memory holds, which has the executed item last
C15_Witness ==
    /\ rec.op = "record" /\ rec.result = "Err"
    /\ proc = "up" /\ loop_pc = "top"
    /\ history # rec.before
    /\ IdentityKey(history[Len(history)]) = IdentityKey(rec.item)
    /\ load_history(history_file) # LoadOk(history)

\* C16: load_history never fails because of the content of the file: an
\* absent file and a file whose text does not parse give the empty history.
C16_LoadNeverFails ==
    rec.op = "load" =>
        /\ rec.result = "Ok" /\ proc = "up"
        /\ ~(history_file.exists /\ IsUtf8(history_file.text)
                /\ IsJsonHistory(history_file.text)) => history = <<>>

\* C17: after a crash inside save_history the next load returns the history
\* the file held before the save or the history that was being saved.
C17_CrashLeavesOldOrNew ==
    [][ rec.op = "crash" /\ rec'.op = "load" =>
            /\ rec'.result = "Ok"
            /\ history' \in {rec.old, rec.saved} ]_vars

\* C18: save_history(history) followed by load_history() gives back the
\* history: length, order and every field of every item, ran_at present or
\* absent and the metadata included.
C18_SaveLoadRoundTrip ==
    /\ rec.op = "record" /\ rec.result = "Ok" =>
           load_history(history_file) = LoadOk(history)
    /\ \A hist \in {history, items, filtered_items} :
           load_history(FileWith(to_string_pretty(hist))) = LoadOk(hist)

\* a history of stamped items, one with metadata, has been saved, and the
\* catalog holds items without a stamp
C18_Witness ==
    /\ rec.op = "record" /\ rec.result = "Ok"
    /\ Len(history) >= 2
    /\ \E i \in DOMAIN history : history[i].metadata # {}
    /\ \E i \in DOMAIN history : IsSome(history[i].ran_at)
    /\ \E i \in DOMAIN items : items[i].ran_at = None

(***************************************************************************)
(* Properties of filter_items.                                             *)
(***************************************************************************)
\* C19: whenever the query is empty (every such state is left by a
\* recomputation of the view: at the start, after an edit, after Enter,
\* after a note key, after the loop absorbed a batch) the view is the
\* history in reverse order, row i being the i-th most recent entry,
\* whatever the catalog and the search buffers hold.
C19_EmptyQueryShowsHistory ==
    trim(query) = <<>> =>
        /\ Len(filtered_items) = Len(history)
        /\ \A i \in 1..Len(history) :
               filtered_items[i] = history[Len(history) + 1 - i]

\* the query was emptied by an edit while the catalog and the file buffer
\* hold items and the history has several entries
C19_Witness ==
    /\ ev.key = "Input" /\ loop_pc = "top"
    /\ query = <<>>
    /\ items # <<>> /\ fs_items # <<>>
    /\ Len(history) >= 2
    /\ filtered_items[1] = history[Len(history)]

\* the five inputs of filter_items are the same before and after the step
SameInputs ==
    /\ query' = query
    /\ items' = items
    /\ fs_items' = fs_items
    /\ web_items' = web_items
    /\ history' = history

\* C20: a step that leaves the query, the catalog, the file buffer, the
\* suggestion buffer and the history as they were leaves the view as it was,
\* row for row: a recomputation from identical inputs (a key that does not
\* change the text, a batch equal to the buffer it replaces) yields the
\* identical ordered view, rows of equal score included.
C20_RankingIsDeterministic ==
    [][ SameInputs => filtered_items' = filtered_items ]_vars

\* with the history empty and the second row selected, a key that left the
\* query "a" as it was has recomputed a view with two rows of equal score
C20_Witness ==
    /\ ev.key = "Input" /\ loop_pc = "top"
    /\ query = <<"a">> /\ history = <<>>
    /\ ev.sel = Some(1)
    /\ \E i, j \in 1..Len(filtered_items) :
           /\ i < j
           /\ SortCompare(filtered_items[i], filtered_items[j], query) = "Equal"
           /\ filtered_items[i] # filtered_items[j]

\* a step in which filter_items has run
FilterStep == ev'.key = "filter_items"

\* the view is that of a non-empty query, computed by filter_items
Ranked == ev.key = "filter_items" /\ trim(query) # <<>>

\* C21: filter_items leaves the query, the history, the static catalog, the
\* file buffer, the suggestion buffer and the error message as they were:
\* a step of it changes at most the view and the selection.
C21_FilterLeavesInputs ==
    [][ FilterStep =>
            /\ query' = query
            /\ history' = history
            /\ items' = items
            /\ fs_items' = fs_items
            /\ web_items' = web_items
            /\ error_message' = error_message ]_vars

\* filter_items has replaced the view and the selection while every input,
\* an error message among them, is set
C21_Witness ==
    /\ Ranked
    /\ error_message # None
    /\ history # <<>> /\ items # <<>> /\ fs_items # <<>> /\ web_items # <<>>
    /\ filtered_items # <<>> /\ filtered_items # reverse(history)
    /\ ev.sel = None /\ selected = Some(0)

\* the kinds in the order of the priority table, most preferred first
KindRank(kind) ==
    CASE kind = "App" -> 1
      [] kind = "Note" -> 2
      [] kind = "Bookmark" -> 3
      [] kind = "Unknown" -> 4
      [] kind = "WebSearch" -> 5
      [] kind = "WebSuggestion" -> 6

\* C22: for a non-empty query the view is in descending order of score plus
\* type bonus, the score being the larger of the fuzzy scores of label and
\* value: a row never has a smaller sum than a row after it.
C22_OrderedByScorePlusBonus ==
    Ranked =>
        \A i, j \in 1..Len(filtered_items) :
            i < j =>
                ItemFuzzy(filtered_items[i], trim(query))
                        + type_bonus(filtered_items[i].kind)
                    >= ItemFuzzy(filtered_items[j], trim(query))
                        + type_bonus(filtered_items[j].kind)

\* rows i and j of the view have the same fuzzy score
SameScore(i, j) ==
    ItemFuzzy(filtered_items[i], trim(query)) = ItemFuzzy(filtered_items[j], trim(query))

\* C23: rows of the view that tie (same score, same kind) are in ascending
\* order of their labels compared without regard to case.
C23_TiesByCaseInsensitiveLabel ==
    Ranked =>
        \A i, j \in 1..Len(filtered_items) :
            (i < j /\ SameScore(i, j)
                   /\ filtered_items[i].kind = filtered_items[j].kind) =>
                StrCmp(to_lowercase(filtered_items[i].label),
                       to_lowercase(filtered_items[j].label)) # "Greater"

\* C24: of two rows with the same fuzzy score the one whose kind comes
\* earlier in App, Note, Bookmark, Unknown, WebSearch, WebSuggestion is
\* never below the other.
C24_KindPriorityStrict ==
    Ranked =>
        \A i, j \in 1..Len(filtered_items) :
            (i < j /\ SameScore(i, j)) =>
                KindRank(filtered_items[i].kind) <= KindRank(filtered_items[j].kind)

IsWeb(item) == item.kind \in {"WebSearch", "WebSuggestion"}
IsLocal(item) == item.kind \in {"App", "Note", "Bookmark", "Unknown"}

\* C25: of two rows with the same fuzzy score a web item is never above a
\* local item.
C25_LocalBeforeWeb ==
    Ranked =>
        \A i, j \in 1..Len(filtered_items) :
            (i < j /\ SameScore(i, j)) =>
                ~(IsWeb(filtered_items[i]) /\ IsLocal(filtered_items[j]))

\* a local item is above a suggestion of the same score whose label sorts
\* before its own
C25_Witness ==
    /\ Ranked
    /\ \E i, j \in 1..Len(filtered_items) :
          /\ i < j /\ SameScore(i, j)
          /\ IsLocal(filtered_items[i]) /\ IsWeb(filtered_items[j])
          /\ StrCmp(filtered_items[j].label, filtered_items[i].label) = "Less"

\* how often x occurs in a sequence
Count(seq, x) == Cardinality({i \in DOMAIN seq : seq[i] = x})

Range(seq) == {seq[i] : i \in DOMAIN seq}

\* the candidates of a non-empty query: catalog, file buffer, suggestions
Candidates == items \o fs_items \o web_items

\* the item matches: the query occurs in its label or value, case ignored,
\* or its fuzzy score is positive
IsMatch(item, q) ==
    \/ contains(to_lowercase(item.label), to_lowercase(q))
    \/ contains(to_lowercase(item.value), to_lowercase(q))
    \/ ItemFuzzy(item, q) > 0

\* C26: for a non-empty query the view holds every matching candidate as
\* often as the three sources hold it and nothing else: no candidate that
\* does not match, no item of the history.
C26_ViewIsTheMatches ==
    Ranked =>
        \A x \in Range(Candidates) \cup Range(filtered_items) \cup Range(history) :
            Count(filtered_items, x) =
                IF IsMatch(x, trim(query)) THEN Count(Candidates, x) ELSE 0

\* the view has a row from each source, one of them matching by substring
\* only; a candidate that does not match is left out, and so is the history
C26_Witness ==
    /\ Ranked
    /\ \E x \in Range(filtered_items) : ItemFuzzy(x, trim(query)) = 0
    /\ \E x \in Range(items) : Count(filtered_items, x) = 0
    /\ \E x \in Range(items) : Count(filtered_items, x) = 1
    /\ \E x \in Range(fs_items) : Count(filtered_items, x) = 1
    /\ \E x \in Range(web_items) : Count(filtered_items, x) = 1
    /\ history # <<>>

\* C27: in every state of the session (each is the end of a step: a key
\* handled, a loop iteration that absorbed what the channels held, a
\* catalog delivered) the view is the ranking of the current query,
\* catalog, file buffer, suggestion buffer and history: the history most
\* recent first for an empty query, otherwise the matches of the three
\* sources sorted.  An edit of the query has the catalog filtered anew in
\* the same step.
C27_ViewIsCurrentRanking ==
    filtered_items =
        IF trim(query) = <<>> THEN reverse(history)
        ELSE sort_by(SelectSeq(Candidates, LAMBDA x : IsMatch(x, trim(query))),
                     trim(query))

\* an edit has just made the query "a": the state it leaves already shows
\* the catalog items that match, before any loop iteration and with the
\* search buffers empty
C27_Witness ==
    /\ ev.key = "Input" /\ loop_pc = "top"
    /\ query = <<"a">>
    /\ fs_items = <<>> /\ web_items = <<>>
    /\ filtered_items # <<>>
    /\ \A i \in 1..Len(filtered_items) : Count(items, filtered_items[i]) = 1

(***************************************************************************)
(* Properties of the batch mode (SpecCli).                                 *)
(***************************************************************************)
\* the positions of the completion markers among the lines printed
Markers == {i \in DOMAIN stdout : stdout[i].type = "completion"}

\* C28: a batch run prints at most one completion marker and nothing after
\* it; the marker comes only when every source task has returned and the
\* channel is drained; a run that has returned has printed exactly one,
\* with status success if run_search_command_inner returned Ok and error
\* if it returned Err.
C28_OneCompletionMarkerLast ==
    /\ Cardinality(Markers) <= 1
    /\ \A i \in Markers : i = Len(stdout)
    /\ Markers # {} =>
          /\ \A src \in CliSources : cli_src[src].pc = "done"
          /\ cli_chan = <<>>
    /\ cli_pc = "returned" =>
          /\ Cardinality(Markers) = 1
          /\ cli_inner = "Ok" => stdout[Len(stdout)].status = "success"
          /\ cli_inner # "Ok" => stdout[Len(stdout)].status = "error"

\* a run has returned after a flush failed on its second result line: two
\* result lines, then the marker with status error
C28_Witness ==
    /\ cli_pc = "returned"
    /\ cli_inner = "flush failed"
    /\ Len(stdout) = 3
    /\ stdout[3] = [type |-> "completion", status |-> "error", error |-> "flush failed"]
    /\ Len(scored_results) > 2

\* the fetch of some source task ended in an error
SourceFailed == \E src \in CliSources : cli_src[src].failed

\* no flush of stdout failed during the run
StdoutWorked == cli_inner # "flush failed" /\ cli_exit # "flush failed"

\* C29: when the file search or the suggestion request has failed and
\* stdout took every line, the run returns Ok, its completion marker has
\* status success, and every item with a positive score that a source
\* which did not fail has for the query is on a result line.
C29_SourceFailureAbsorbed ==
    (cli_pc = "returned" /\ SourceFailed /\ StdoutWorked) =>
        /\ cli_exit = "Ok"
        /\ stdout[Len(stdout)] = [type |-> "completion", status |-> "success"]
        /\ \A src \in CliSources :
              ~cli_src[src].failed =>
                  \A item \in Range(Fetched(src, cli_query, "ok")) :
                      ItemFuzzy(item, cli_query) > 0 =>
                          \E i \in 1..(Len(stdout) - 1) :
                              stdout[i] = ResultLine(item, src)

\* the file search and the suggestion request have both failed; the run has
\* printed the application and the shortcut and reported success
C29_Witness ==
    /\ cli_pc = "returned"
    /\ cli_src["file"].failed /\ cli_src["web_suggestion"].failed
    /\ cli_exit = "Ok"
    /\ Len(stdout) = 3
    /\ \E i \in 1..2 : stdout[i].type = "app"
    /\ \E i \in 1..2 : stdout[i].type = "shortcut"
    /\ stdout[3].status = "success"

\* fuzzy score plus type bonus of element i of scored_results
Combined(i) ==
    ItemFuzzy(scored_results[i].item, cli_query)
        + type_bonus(scored_results[i].item.kind)

\* C30: the bonuses decrease strictly along App, Note, Bookmark, Unknown,
\* WebSearch, WebSuggestion; the result lines are printed in the order of
\* the sorted results, which is non-increasing in fuzzy score plus bonus,
\* and results of equal sum are in ascending order of their lower-cased
\* labels.
C30_CliOrder ==
    /\ \A k1, k2 \in CommandTypes :
          KindRank(k1) < KindRank(k2) => type_bonus(k1) > type_bonus(k2)
    /\ cli_pc \in {"stream", "completion", "returned"} =>
          /\ \A i \in 1..streamed :
                stdout[i] = ResultLine(scored_results[i].item,
                                       scored_results[i].result_type)
          /\ \A i, j \in 1..Len(scored_results) :
                i < j =>
                    /\ Combined(i) >= Combined(j)
                    /\ Combined(i) = Combined(j) =>
                          StrCmp(to_lowercase(scored_results[i].item.label),
                                 to_lowercase(scored_results[j].item.label))
                              # "Greater"

\* every result was printed: a shortcut above a suggestion of higher fuzzy
\* score, and two applications of equal sum with "ba" above "Za"
C30_Witness ==
    /\ cli_pc = "returned" /\ cli_exit = "Ok"
    /\ streamed = Len(scored_results) /\ streamed >= 4
    /\ \E i, j \in 1..streamed :
          /\ i < j
          /\ ItemFuzzy(scored_results[i].item, cli_query)
                 < ItemFuzzy(scored_results[j].item, cli_query)
    /\ \E i, j \in 1..streamed :
          /\ i < j /\ Combined(i) = Combined(j)
          /\ StrCmp(scored_results[i].item.label, scored_results[j].item.label)
                 = "Greater"

(***************************************************************************)
(* C31..C40                                                                *)
(***************************************************************************)
\* the generations the tasks of one category captured, in trigger order
Captured(tasks) == [g \in DOMAIN tasks |-> tasks[g].current_generation]

\* every trigger captured more than every earlier trigger of its category
StrictlyIncreasing(seq) == \A i, j \in DOMAIN seq : i < j => seq[i] < seq[j]

\* C31: each generation counter equals the number of triggers issued so far
\* in its category, and the generations the tasks of one category captured
\* are strictly increasing in trigger order (so no two tasks hold the same
\* generation and none exceeds the counter).
C31_GenerationsCountTriggers ==
    /\ SEARCH_GENERATION = Len(fs_tasks)
    /\ WEB_SEARCH_GENERATION = Len(web_tasks)
    /\ StrictlyIncreasing(Captured(fs_tasks))
    /\ StrictlyIncreasing(Captured(web_tasks))
    /\ \A g \in DOMAIN fs_tasks : fs_tasks[g].current_generation <= SEARCH_GENERATION
    /\ \A g \in DOMAIN web_tasks :
          web_tasks[g].current_generation <= WEB_SEARCH_GENERATION

\* two triggers were issued while the first task of each category had not
\* yet returned
C31_Witness ==
    /\ Len(fs_tasks) = 2 /\ Len(web_tasks) = 2
    /\ fs_tasks[1].pc # "done" /\ web_tasks[1].pc # "done"
    /\ Captured(fs_tasks) = <<1, 2>>

(***************************************************************************)
(* SpecLive: the dispatcher with its scheduling.  The loop goes on (no     *)
(* exit key), the tokio runtime runs every task that can take a step (the  *)
(* delay ends, the source call returns Ok, a send on a channel with room   *)
(* completes), and every source call succeeds.  The user types when and    *)
(* what they like, queries of up to MinQueryLen characters.                *)
(***************************************************************************)
NextLive ==
    \/ LoopStep
    \/ \E key \in InputKeys :
          KeyInput(key) /\ Len(query') <= MinQueryLen /\ SEARCH_GENERATION' <= MaxGen
    \/ FsStep
    \/ WebStep

\* main.rs: event::poll returns after 50 ms at the latest, and an iteration
\* that has started reaches event::poll: WF_vars(LoopTick), with
\* ENABLED <<LoopTick>>_vars written out as loop_pc = "top"
FairLoop ==
    /\ WF_vars(PollTimeout)
    /\ \/ []<>(loop_pc # "top")
       \/ []<><<\E area_empty \in BOOLEAN : LoopTick(area_empty)>>_vars

\* tokio: a spawned task that is ready is polled
FairLive ==
    /\ FairLoop
    /\ WF_vars(FsStep)
    /\ WF_vars(WebStep)

SpecLive == InitDispatch /\ [][NextLive]_vars /\ FairLive

\* C32: if from some point on the query has at least MinQueryLen characters
\* (the user has stopped editing on such a query), then from some point on
\* the last batch the loop absorbed in each category is the one of the task
\* that holds the latest generation.
C32_LatestBatchAbsorbed ==
    <>[](Len(query) >= MinQueryLen)
        => <>[](fs_last = SEARCH_GENERATION /\ web_last = WEB_SEARCH_GENERATION)

\* the batches of the second tasks were absorbed although the first tasks
\* had passed their generation checks and used the channels before them
C32_Witness ==
    /\ Len(query) >= MinQueryLen
    /\ SEARCH_GENERATION = 2 /\ fs_last = 2
    /\ WEB_SEARCH_GENERATION = 2 /\ web_last = 2
    /\ ~fs_tasks[1].overtaken /\ ~web_tasks[1].overtaken
    /\ fs_items # <<>> /\ web_items # <<>>

\* C33: when the execution of the selected item has failed, the item is the
\* last entry of the history, stamped with the time of the Enter, and the
\* loop goes on with its next iteration.
C33_FailedExecutionIsRecorded ==
    rec.op = "record" /\ rec.exec = "Err" =>
        /\ history # <<>>
        /\ history[Len(history)] = mark_executed(rec.item, now - 1)
        /\ history[Len(history)].ran_at = Some(now - 1)
        /\ loop_pc = "top"

\* the execution of an item that was not in the history has failed, and the
\* item went behind an entry that was there before
C33_Witness ==
    /\ rec.op = "record" /\ rec.exec = "Err"
    /\ Len(history) >= 2 /\ Len(history) = Len(rec.before) + 1
    /\ IdentityKey(history[Len(history)]) = IdentityKey(rec.item)
    /\ loop_pc = "top"

(***************************************************************************)
(* SpecExit: every key of handle_key_event with the failures around it.   *)
(* The file search and the suggestion service answer or fail, the          *)
(* execution of an item can fail, and the write of the history file can    *)
(* fail or be cut short.  The catalog task and the note tasks have not     *)
(* answered yet.                                                           *)
(***************************************************************************)
NextExit ==
    \/ LoopStep
    \/ \E key \in InputKeys : KeyInput(key) /\ SessionBounds
    \/ \E name \in ExitKeys : KeyExit(name)
    \/ KeyClearError
    \/ KeyCreateNote /\ SessionBounds
    \/ KeyDeleteNote /\ SessionBounds
    \/ \E outcome \in SaveOutcomes : KeyEnter(outcome) /\ SessionBounds
    \/ KeyDown
    \/ KeyUp
    \/ FsStep
    \/ FsFailStep
    \/ WebStep
    \/ WebFailStep

SpecExit == Init /\ [][NextExit]_vars

\* C34: the loop has ended only when the key handler has just handled Esc,
\* Ctrl+C or Tab: no other key, and no step of a search task, of the
\* catalog task, of a note task or of the loop itself, ends it.
C34_ExitOnlyOnExitKeys ==
    /\ loop_pc = "exited" => ev.key \in ExitKeys
    /\ ev.key \in {"Input", "ClearError", "CreateNote", "DeleteNote", "Enter",
                   "Down", "Up"} => loop_pc = "top"

\* the session ended on Tab, after the error of a failed file search was
\* shown and an item was executed whose save did not reach the file
C34_Witness ==
    /\ loop_pc = "exited" /\ ev.key = "Tab"
    /\ error_message = Some("mdfind failed")
    /\ now > 1 /\ history # <<>>
    /\ load_history(history_file).value # history

\* C35: while the query has fewer than MinQueryLen characters the loop
\* absorbs no batch of a search task (a batch computed for an earlier,
\* longer query) into fs_items or web_items.
C35_NoBatchAfterShortening ==
    [][ Len(query) < MinQueryLen => ~AbsorbsFs /\ ~AbsorbsWeb ]_vars

(***************************************************************************)
(* SpecTyping: the dispatcher when the user also types spaces.             *)
(***************************************************************************)
\* the keys of the `_` arm in this specification
TypingKeys == {KeyChar(" "), KeyChar("a"), KeyBackspace}

NextTyping ==
    \/ LoopStep
    \/ \E key \in TypingKeys :
          KeyInput(key) /\ Len(query') <= MaxQueryLen /\ SEARCH_GENERATION' <= MaxGen
    \/ FsStep
    \/ WebStep

SpecTyping == InitDispatch /\ [][NextTyping]_vars

\* C36: an edit triggers a file search or a suggestion search only when the
\* trimmed query, the one filter_items ranks by, has at least MinQueryLen
\* characters; no search is triggered while the trimmed query is empty.
C36_DispatchOnlyOnTrimmedQuery ==
    [][ InputStep /\ (Triggers \/ WEB_SEARCH_GENERATION' # WEB_SEARCH_GENERATION) =>
            Len(trim(query')) >= MinQueryLen ]_vars

\* the index after k presses of Down, and of Up, from index i in a view of
\* len rows
RECURSIVE Downs(_, _, _)
Downs(i, len, k) == IF k = 0 THEN i ELSE Downs(DownIndex(Some(i), len), len, k - 1)

RECURSIVE Ups(_, _, _)
Ups(i, len, k) == IF k = 0 THEN i ELSE Ups(UpIndex(Some(i), len), len, k - 1)

\* C37: on a non-empty view of len rows with the selection on a row i of
\* the view, Up after Down and Down after Up lead back to i, and so do len
\* presses of Down and len presses of Up; a Down or an Up the handler has
\* just made from such a row is undone by the opposite key.
C37_DownUpInverse ==
    LET len == Len(filtered_items)
    IN  /\ len > 0 /\ IsSome(selected) /\ Unwrap(selected) < len =>
              LET i == Unwrap(selected)
              IN  /\ UpIndex(Some(DownIndex(selected, len)), len) = i
                  /\ DownIndex(Some(UpIndex(selected, len)), len) = i
                  /\ Downs(i, len, len) = i
                  /\ Ups(i, len, len) = i
        /\ len > 0 /\ IsSome(ev.sel) /\ Unwrap(ev.sel) < len =>
              /\ ev.key = "Down" => UpIndex(selected, len) = Unwrap(ev.sel)
              /\ ev.key = "Up" => DownIndex(selected, len) = Unwrap(ev.sel)

\* Up has wrapped from the first row of a view of three rows to the last
C37_Witness ==
    /\ ev.key = "Up" /\ ev.sel = Some(0)
    /\ Len(filtered_items) = 3
    /\ selected = Some(2)

\* every entry of hist carries a time, and the times do not decrease
OrderedByRanAt(hist) ==
    /\ \A i \in DOMAIN hist : IsSome(hist[i].ran_at)
    /\ \A i, j \in DOMAIN hist :
          i < j => Unwrap(hist[i].ran_at) <= Unwrap(hist[j].ran_at)

\* C38: the history is in non-decreasing order of ran_at and every entry
\* carries its time, the entry a record has just appended carries the time
\* of that record, and the view of an empty query lists the entries from
\* the most recent to the least recent.
C38_HistoryOrderedByTime ==
    /\ OrderedByRanAt(history)
    /\ rec.op = "record" =>
          history # <<>> /\ history[Len(history)].ran_at = Some(now - 1)
    /\ trim(query) = <<>> => OrderedByRanAt(reverse(filtered_items))

\* two records after the start: an old entry went to the end and took the
\* later time, and the view shows it first
C38_Witness ==
    /\ rec.op = "record" /\ now = 3
    /\ Len(history) = 3
    /\ HasIdentity(rec.before, rec.item)
    /\ Unwrap(history[1].ran_at) < Unwrap(history[2].ran_at)
    /\ Unwrap(history[2].ran_at) < Unwrap(history[3].ran_at)
    /\ query = <<>> /\ filtered_items[1] = history[3]

(***************************************************************************)
(* SpecCliLive: a batch run with its scheduling.  The tokio runtime runs a *)
(* source task that can take a step, and the main task goes on whenever    *)
(* it can; every source call returns.  The query is one of a single       *)
(* character, or one that more applications match than the channel holds;  *)
(* reading the application directories then takes longer than the other    *)
(* sources take to return.                                                 *)
(***************************************************************************)
BulkQuery == <<"b", "b">>

LiveQueries == {<<"a">>, BulkQuery}

InitCliLive == InitCliWith(LiveQueries)

\* the applications task of a bulk run is the last one to get its results
AppsComeLast(src) ==
    src = "app" /\ cli_query = BulkQuery =>
        \A other \in CliSources \ {"app"} : cli_src[other].pc = "done"

CliTaskStep ==
    \/ \E src \in CliSources, outcome \in FetchOutcomes :
          CliFetch(src, outcome) /\ AppsComeLast(src)
    \/ \E src \in CliSources : CliSend(src)
    \/ \E src \in CliSources : CliTaskReturn(src)

CliMainStep ==
    \/ CliRecv
    \/ CliCollected
    \/ \E outcome \in FlushOutcomes : CliStream(outcome)
    \/ CliInnerOk
    \/ \E outcome \in FlushOutcomes : CliCompletion(outcome)

NextCliLive == CliTaskStep \/ CliMainStep

\* WF_vars(CliMainStep), with ENABLED <<CliMainStep>>_vars written out: the
\* main task can go on unless it waits in rx.recv() or has returned
CliMainWaits ==
    \/ cli_pc = "returned"
    \/ /\ cli_pc = "collect"
       /\ cli_chan = <<>>
       /\ \E src \in CliSources : cli_src[src].pc # "done"

FairCli ==
    /\ WF_vars(CliTaskStep)
    /\ []<>CliMainWaits \/ []<><<CliMainStep>>_vars

SpecCliLive == InitCliLive /\ [][NextCliLive]_vars /\ FairCli

\* C39: a batch run reaches the state in which every source task has
\* returned and dropped its sender, the channel is drained, the collecting
\* loop has ended, the completion marker is the last line printed and
\* run_search_command has returned.
C39_BatchRunTerminates ==
    <>(/\ \A src \in CliSources : cli_src[src].pc = "done"
       /\ cli_chan = <<>>
       /\ cli_pc = "returned"
       /\ stdout # <<>>
       /\ stdout[Len(stdout)].type = "completion")

\* the applications task waits in send: the channel is full and it has
\* more to send
C39_Witness ==
    /\ cli_pc = "collect"
    /\ Len(cli_chan) = CliChannelCapacity
    /\ cli_src["app"].pc = "send" /\ cli_src["app"].out # <<>>

\* no row of the view is selected: the selection is absent or beyond the view
NothingSelected == selected = None \/ Unwrap(selected) >= Len(filtered_items)

\* C40: an Enter while no row of the view is selected leaves the history
\* and its file alone; with a non-empty query it opens the web search,
\* empties the query and shows the history view, and with an empty query
\* it calls nothing and changes nothing of the session's state.
C40_EnterWithoutSelection ==
    [][ EnterStep /\ NothingSelected =>
            /\ history' = history /\ history_file' = history_file
            /\ now' = now /\ rec'.op # "record"
            /\ query # <<>> =>
                  /\ rec'.op = "search_web"
                  /\ query' = <<>>
                  /\ filtered_items' = reverse(history)
            /\ query = <<>> =>
                  UNCHANGED <<appVars, genVars, taskVars, chanVars, now, fs_last,
                              web_last, storeVars>>
      ]_vars

\* Enter on a query without a match has opened the web search, and the view
\* is the history, which the Enter has left as it was
C40_Witness ==
    /\ ev.key = "Enter" /\ rec.op = "search_web"
    /\ query = <<>>
    /\ Len(history) = 3
    /\ filtered_items = reverse(history)

=============================================================================
